---- MODULE Spec2Model ----
(***************************************************************************)
(* A model of the layout extraction and normalisation engine of tsx2slides *)
(* (paint order resolver, text run extractor, document assembler and       *)
(* pagination engine), written from the TypeScript sources.                *)
(*                                                                         *)
(* JavaScript numbers are modelled as exact rationals [n |-> _, d |-> _]   *)
(* in lowest terms with d > 0, so that structural equality is numerical    *)
(* equality.  Optional fields (x?: T) are <<>> when absent and <<v>> when  *)
(* present.                                                                *)
(***************************************************************************)
EXTENDS Integers, Sequences, FiniteSets, TLC

VARIABLES
    pc,        \* position of the operation under study
    extracted, \* the LayoutItems of walkDom in extraction order
    container, \* the hidden analysis container: containerInfo and scrollHeight
    request,   \* the ParseRequest fields the pass reads
    elements,  \* LayoutItem[] handed to paginateLayoutItems
    options,   \* PaginationOptions
    pages,     \* PageBreak[] returned by paginateLayoutItems
    layout,    \* DocumentLayout.pages returned by extractLayoutEnhanced
    drawn,     \* per page, the elements in the order generatePDF renders them
    dom,       \* the rendered tree under the container, in document order
    stacking,  \* the StackingContext objects of buildStackingContextTree
    paintOrder, \* the HTMLElement[] returned by getPaintOrder
    texts,      \* the text nodes of the rendered tree, in document order
    textContext, \* the TextExtractionContext of the walk
    walkIndex,  \* the index i of walkDom's loop over the paint order
    app,        \* the state of the App component
    passes,     \* the parseTsxToLayout calls made so far
    host,       \* the document: the analysis container and what is mounted in it
    settle,     \* one pass from settleLayout on: its waits, its timer, its result
    arg,        \* the argument of the function under study
    ret         \* what the function returned

passVars == <<extracted, container, request, elements, options, pages, layout, drawn>>
paintVars == <<dom, stacking, paintOrder>>
textVars == <<texts, textContext, walkIndex>>
appVars == <<app, passes, host, settle>>
callVars == <<arg, ret>>
vars == <<pc, passVars, paintVars, textVars, appVars, callVars>>

----------------------------------------------------------------------------
(* Rational arithmetic                                                     *)

Abs(i) == IF i < 0 THEN -i ELSE i

RECURSIVE Gcd(_, _)
Gcd(a, b) == IF b = 0 THEN a ELSE Gcd(b, a % b)

\* The number n/d in lowest terms with d >= 0; 1/0 is Infinity, -1/0 is
\* -Infinity and 0/0 is NaN.
Rat(n, d) ==
    LET g == Gcd(Abs(n), Abs(d))
        s == IF d < 0 THEN -1 ELSE 1
    IN  IF g = 0 THEN [n |-> 0, d |-> 0]
        ELSE [n |-> (s * n) \div g, d |-> (s * d) \div g]

R(i) == [n |-> i, d |-> 1]

Infinity == [n |-> 1, d |-> 0]
NegInfinity == [n |-> -1, d |-> 0]
NaN == [n |-> 0, d |-> 0]
IsFinite(a) == a.d # 0

RNeg(a) == [n |-> -a.n, d |-> a.d]
RAdd(a, b) ==
    IF IsFinite(a) /\ IsFinite(b) THEN Rat(a.n * b.d + b.n * a.d, a.d * b.d)
    ELSE IF IsFinite(b) THEN a
    ELSE IF IsFinite(a) THEN b
    ELSE IF a = b THEN a ELSE NaN
RSub(a, b) == RAdd(a, RNeg(b))
RMul(a, b) == Rat(a.n * b.n, a.d * b.d)
RDiv(a, b) == Rat(a.n * b.d, a.d * b.n)
RLt(a, b) == a # NaN /\ b # NaN /\ a # b /\ a.n * b.d < b.n * a.d
RLe(a, b) == a # NaN /\ b # NaN /\ (a = b \/ a.n * b.d < b.n * a.d)

\* Math.round of a finite number: the nearest integer, halves rounded
\* towards +Infinity.
MathRound(a) == (2 * a.n + a.d) \div (2 * a.d)

\* Math.round(v), which leaves Infinity, -Infinity and NaN as they are.
RoundNumber(a) == IF IsFinite(a) THEN R(MathRound(a)) ELSE a

\* Math.round(v * 1000) / 1000
Round3(a) == RDiv(RoundNumber(RMul(a, R(1000))), R(1000))

Opt(o, default) == IF o = <<>> THEN default ELSE o[1]

----------------------------------------------------------------------------
(* services/pageBreaker.ts                                                 *)

\* Mutant of ScalePosition: every field divided by scale.
ScalePositionInverse(pos, scale) ==
    [x        |-> RDiv(pos.x, scale),
     y        |-> RDiv(pos.y, scale),
     width    |-> RDiv(pos.width, scale),
     height   |-> RDiv(pos.height, scale),
     xPercent |-> RDiv(pos.xPercent, scale),
     yPercent |-> RDiv(pos.yPercent, scale),
     wPercent |-> RDiv(pos.wPercent, scale),
     hPercent |-> RDiv(pos.hPercent, scale)]

\* scaleLayoutToSinglePage: the position of one element multiplied by scale.
ScalePosition(pos, scale) ==
    [x        |-> RMul(pos.x, scale),
     y        |-> RMul(pos.y, scale),
     width    |-> RMul(pos.width, scale),
     height   |-> RMul(pos.height, scale),
     xPercent |-> RMul(pos.xPercent, scale),
     yPercent |-> RMul(pos.yPercent, scale),
     wPercent |-> RMul(pos.wPercent, scale),
     hPercent |-> RMul(pos.hPercent, scale)]

\* const scale = contentHeight > pageHeight ? pageHeight / contentHeight : 1
ScaleFactor(pageHeight, contentHeight) ==
    IF RLt(pageHeight, contentHeight) THEN RDiv(pageHeight, contentHeight) ELSE R(1)

\* if (scale >= 0.999) return elements
ScaleIsNoop(scale) == RLe(Rat(999, 1000), scale)

scaleLayoutToSinglePage(els, pageHeight, contentHeight) ==
    IF RLe(contentHeight, R(0)) \/ RLe(pageHeight, R(0)) THEN els
    ELSE LET scale == ScaleFactor(pageHeight, contentHeight)
         IN  IF ScaleIsNoop(scale) THEN els
             ELSE [i \in 1..Len(els) |->
                     [els[i] EXCEPT !.position = ScalePosition(els[i].position, scale)]]

\* Mutant of SortByY: the comparator reversed (b.position.y - a.position.y).
RECURSIVE InsertByYDescending(_, _)
InsertByYDescending(sortedSeq, el) ==
    IF sortedSeq = <<>> THEN <<el>>
    ELSE IF RLt(sortedSeq[Len(sortedSeq)].position.y, el.position.y)
         THEN Append(InsertByYDescending(SubSeq(sortedSeq, 1, Len(sortedSeq) - 1), el),
                     sortedSeq[Len(sortedSeq)])
         ELSE Append(sortedSeq, el)

RECURSIVE SortByYDescending(_)
SortByYDescending(els) ==
    IF els = <<>> THEN <<>>
    ELSE InsertByYDescending(SortByYDescending(SubSeq(els, 1, Len(els) - 1)),
                             els[Len(els)])

\* Array.prototype.sort with (a, b) => a.position.y - b.position.y: a stable
\* sort, modelled as insertion after the last element that is not greater.
RECURSIVE InsertByY(_, _)
InsertByY(sortedSeq, el) ==
    IF sortedSeq = <<>> THEN <<el>>
    ELSE IF RLt(el.position.y, sortedSeq[Len(sortedSeq)].position.y)
         THEN Append(InsertByY(SubSeq(sortedSeq, 1, Len(sortedSeq) - 1), el),
                     sortedSeq[Len(sortedSeq)])
         ELSE Append(sortedSeq, el)

RECURSIVE SortByY(_)
SortByY(els) ==
    IF els = <<>> THEN <<>>
    ELSE InsertByY(SortByY(SubSeq(els, 1, Len(els) - 1)), els[Len(els)])

\* Mutant of BelowMaxPages: the cap is not looked at.
BelowMaxPagesUncapped(n, maxPages) == TRUE

\* n < maxPages, where maxPages = options.maxPages ?? Infinity
BelowMaxPages(n, maxPages) == IF maxPages = <<>> THEN TRUE ELSE n < maxPages[1]

\* Mutant of CrossesBoundary: the element's top is compared, not its bottom.
CrossesBoundaryByTop(el, st, pageHeight, marginPx) ==
    LET pageBottom == RSub(RAdd(st.currentStart, pageHeight), marginPx)
    IN  RLt(pageBottom, el.position.y) /\ Len(st.currentElements) > 0

\* crossesBoundary: elBottom > pageBottom && currentElements.length > 0
CrossesBoundary(el, st, pageHeight, marginPx) ==
    LET elBottom   == RAdd(el.position.y, el.position.height)
        pageBottom == RSub(RAdd(st.currentStart, pageHeight), marginPx)
    IN  RLt(pageBottom, elBottom) /\ Len(st.currentElements) > 0

\* Mutant of PushPage: the page is pushed and currentStart stays.
PushPageWithoutAdvance(st, pageHeight) ==
    [pages           |-> Append(st.pages, [yPosition |-> st.currentStart,
                                           elements  |-> st.currentElements]),
     currentStart    |-> st.currentStart,
     currentElements |-> <<>>]

\* pushPage, followed by currentStart = pages.length * pageHeight
PushPage(st, pageHeight) ==
    LET pushed == Append(st.pages, [yPosition |-> st.currentStart,
                                    elements  |-> st.currentElements])
    IN  [pages           |-> pushed,
         currentStart    |-> RMul(R(Len(pushed)), pageHeight),
         currentElements |-> <<>>]

\* Mutant of Adjusted: the element is clipped at the bottom of its page.
AdjustedClipped(el, currentStart, pageHeight) ==
    LET relY == RSub(el.position.y, currentStart)
        room == RSub(pageHeight, relY)
    IN  [el EXCEPT !.position.y = relY,
                   !.position.yPercent = RMul(RDiv(relY, pageHeight), R(100)),
                   !.position.height = IF RLt(room, @) THEN room ELSE @]

\* The element with y and yPercent rewritten relative to currentStart.
Adjusted(el, currentStart, pageHeight) ==
    LET relY == RSub(el.position.y, currentStart)
    IN  [el EXCEPT !.position.y = relY,
                   !.position.yPercent = RMul(RDiv(relY, pageHeight), R(100))]

\* One iteration of  for (const el of sorted) { ... }
PaginateStep(st, el, pageHeight, marginPx, maxPages) ==
    LET st1 == IF CrossesBoundary(el, st, pageHeight, marginPx)
                  /\ BelowMaxPages(Len(st.pages) + 1, maxPages)
               THEN PushPage(st, pageHeight)
               ELSE st
    IN  [st1 EXCEPT !.currentElements =
                       Append(@, Adjusted(el, st1.currentStart, pageHeight))]

RECURSIVE PaginateLoop(_, _, _, _, _)
PaginateLoop(sortedEls, n, pageHeight, marginPx, maxPages) ==
    IF n = 0
    THEN [pages |-> <<>>, currentStart |-> R(0), currentElements |-> <<>>]
    ELSE PaginateStep(PaginateLoop(sortedEls, n - 1, pageHeight, marginPx, maxPages),
                      sortedEls[n], pageHeight, marginPx, maxPages)

\* Mutant of FinalFlush: the page being filled is never pushed.
FinalFlushDropped(st, maxPages) == st.pages

\* if (currentElements.length > 0 && pages.length < maxPages) pushPage()
FinalFlush(st, maxPages) ==
    IF Len(st.currentElements) > 0 /\ BelowMaxPages(Len(st.pages), maxPages)
    THEN Append(st.pages, [yPosition |-> st.currentStart,
                           elements  |-> st.currentElements])
    ELSE st.pages

DefaultMarginPx == 8

paginateLayoutItems(els, opts) ==
    LET pageHeight    == opts.pageHeight
        marginPx      == Opt(opts.marginPx, R(DefaultMarginPx))
        maxPages      == opts.maxPages
        contentHeight == Opt(opts.contentHeight, pageHeight)
    IN  IF opts.forceSinglePage
        THEN <<[yPosition |-> R(0),
                elements  |-> scaleLayoutToSinglePage(els, pageHeight, contentHeight)]>>
        ELSE LET sortedEls == SortByY(els)
             IN  FinalFlush(PaginateLoop(sortedEls, Len(sortedEls),
                                         pageHeight, marginPx, maxPages),
                            maxPages)

----------------------------------------------------------------------------
(* services/positionCalculator.ts                                          *)

\* calculatePrecisePosition / calculateRectPosition, from the rectangle
\* already made relative to the container: percentages of the container's
\* width and height, rounded to 3 decimals.
PreciseRect(x, y, width, height, containerInfo) ==
    [x        |-> x,
     y        |-> y,
     width    |-> width,
     height   |-> height,
     xPercent |-> Round3(RMul(RDiv(x, containerInfo.width), R(100))),
     yPercent |-> Round3(RMul(RDiv(y, containerInfo.height), R(100))),
     wPercent |-> Round3(RMul(RDiv(width, containerInfo.width), R(100))),
     hPercent |-> Round3(RMul(RDiv(height, containerInfo.height), R(100)))]

----------------------------------------------------------------------------
(* services/domWalker.ts                                                   *)

IsWhitespace(ch) == ch = " "

\* String.prototype.trim on a text given as a sequence of characters.
RECURSIVE Trim(_)
Trim(txt) ==
    IF txt = <<>> THEN <<>>
    ELSE IF IsWhitespace(txt[1]) THEN Trim(Tail(txt))
    ELSE IF IsWhitespace(txt[Len(txt)]) THEN Trim(SubSeq(txt, 1, Len(txt) - 1))
    ELSE txt

\* The predicate of validateElements' filter.
IsValidElement(el) ==
    LET pos == el.position
    IN  /\ ~(RLe(pos.width, R(0)) \/ RLe(pos.height, R(0)))
        /\ ~(RLt(R(100), pos.xPercent) \/ RLt(R(100), pos.yPercent))
        /\ ~RLt(RAdd(pos.xPercent, pos.wPercent), R(0))
        /\ ~RLt(RAdd(pos.yPercent, pos.hPercent), R(0))
        /\ ~(el.type = "text" /\ Len(Trim(el.text)) = 0)

validateElements(els) == SelectSeq(els, IsValidElement)

\* elements.sort((a, b) => a.zIndex - b.zIndex): a stable sort.
RECURSIVE InsertByZIndex(_, _)
InsertByZIndex(sortedSeq, el) ==
    IF sortedSeq = <<>> THEN <<el>>
    ELSE IF el.zIndex < sortedSeq[Len(sortedSeq)].zIndex
         THEN Append(InsertByZIndex(SubSeq(sortedSeq, 1, Len(sortedSeq) - 1), el),
                     sortedSeq[Len(sortedSeq)])
         ELSE Append(sortedSeq, el)

RECURSIVE SortByZIndex(_)
SortByZIndex(els) ==
    IF els = <<>> THEN <<>>
    ELSE InsertByZIndex(SortByZIndex(SubSeq(els, 1, Len(els) - 1)), els[Len(els)])

RMax(a, b) == IF RLt(a, b) THEN b ELSE a

\* Math.ceil of a positive rational
MathCeil(a) == -((-a.n) \div a.d)

\* The tail of walkDom (lines 161-173): the extracted elements sorted by
\* zIndex; contentHeight is a local used for pageCount only and is not part
\* of the returned object.
WalkDomResult(extractedEls, containerInfo, scrollHeight) ==
    LET contentHeight == RMax(scrollHeight, containerInfo.height)
        pageCount     == IF MathCeil(RDiv(contentHeight, containerInfo.height)) > 1
                         THEN MathCeil(RDiv(contentHeight, containerInfo.height))
                         ELSE 1
    IN  [elements      |-> SortByZIndex(extractedEls),
         containerInfo |-> containerInfo,
         pageCount     |-> pageCount]

\* The content height that walkDom measures (line 165).
MeasuredContentHeight(containerInfo, scrollHeight) ==
    RMax(scrollHeight, containerInfo.height)

----------------------------------------------------------------------------
(* services/layoutEngine.ts                                                *)

\* Reading a property of a JavaScript object: undefined when it has none.
Prop(obj, name) == IF name \in DOMAIN obj THEN <<obj[name]>> ELSE <<>>

PassMarginPx == 12

\* The PaginationOptions that extractLayoutEnhanced builds (lines 202-208).
PassOptions(result, req) ==
    [pageHeight      |-> result.containerInfo.height,
     maxPages        |-> req.maxPages,
     forceSinglePage |-> req.forceSinglePage,
     contentHeight   |-> Prop(result, "contentHeight"),
     marginPx        |-> <<R(PassMarginPx)>>]

\* convertToLegacyFormat: the LayoutElement keeps the percentage geometry.
convertToLegacyFormat(item) ==
    [id   |-> item.id,
     type |-> item.type,
     x    |-> item.position.xPercent,
     y    |-> item.position.yPercent,
     w    |-> item.position.wPercent,
     h    |-> item.position.hPercent]

\* Mutant of LayoutPages: the mapped pages, without the step that ensures
\* one page.
LayoutPagesMapped(pageBreaks) ==
    [i \in 1..Len(pageBreaks) |->
        [pageNumber |-> i,
         elements   |-> [j \in 1..Len(pageBreaks[i].elements) |->
                           convertToLegacyFormat(pageBreaks[i].elements[j])]]]

\* pageBreaks.map(...) and the "ensure at least one page" step.
LayoutPages(pageBreaks) ==
    LET mapped == [i \in 1..Len(pageBreaks) |->
                     [pageNumber |-> i,
                      elements   |-> [j \in 1..Len(pageBreaks[i].elements) |->
                                        convertToLegacyFormat(pageBreaks[i].elements[j])]]]
    IN  IF Len(mapped) = 0
        THEN <<[pageNumber |-> 1, elements |-> <<>>]>>
        ELSE mapped

\* sortElementsForRendering: a stable sort on the rank of the element type.
TypeOrder(type) ==
    CASE type = "rect"   -> 0
      [] type = "circle" -> 0
      [] type = "image"  -> 1
      [] type = "line"   -> 2
      [] type = "text"   -> 3
      [] OTHER           -> 0

RECURSIVE InsertByType(_, _)
InsertByType(sortedSeq, el) ==
    IF sortedSeq = <<>> THEN <<el>>
    ELSE IF TypeOrder(el.type) < TypeOrder(sortedSeq[Len(sortedSeq)].type)
         THEN Append(InsertByType(SubSeq(sortedSeq, 1, Len(sortedSeq) - 1), el),
                     sortedSeq[Len(sortedSeq)])
         ELSE Append(sortedSeq, el)

RECURSIVE sortElementsForRendering(_)
sortElementsForRendering(els) ==
    IF els = <<>> THEN <<>>
    ELSE InsertByType(sortElementsForRendering(SubSeq(els, 1, Len(els) - 1)),
                      els[Len(els)])

----------------------------------------------------------------------------
(* Inputs                                                                  *)

CONTAINER_WIDTH == 1280
CONTAINER_HEIGHT == 720

\* The longest element list handed to the engine.
MaxItems == 3

\* A LayoutItem whose position was computed against containerInfo.
MakeItem(id, type, text, zIndex, geom, containerInfo) ==
    [id       |-> id,
     type     |-> type,
     text     |-> text,
     zIndex   |-> zIndex,
     position |-> PreciseRect(R(geom.x), R(geom.y), R(geom.width), R(geom.height),
                              containerInfo)]


\* Direct calls of paginateLayoutItems: rectangles 200px wide at x = 40.
PaginateGeoms ==
    [x : {40}, y : {0, 300, 600, 750, 900}, width : {200}, height : {100, 900}]

PaginatePageHeights == {R(800), R(600)}

\* marginPx, maxPages and contentHeight are optional.  Single-page mode reads
\* contentHeight only; multi-page mode reads marginPx and maxPages only, and
\* is run on pages 800px high.
PaginateOptions ==
    {o \in [pageHeight      : PaginatePageHeights,
            marginPx        : {<<>>, <<R(12)>>},
            maxPages        : {<<>>, <<1>>, <<2>>},
            forceSinglePage : BOOLEAN,
            contentHeight   : {<<>>, <<R(0)>>, <<R(400)>>, <<R(801)>>, <<R(1600)>>}] :
        IF o.forceSinglePage
        THEN o.marginPx = <<>> /\ o.maxPages = <<>>
        ELSE o.contentHeight = <<>> /\ o.pageHeight = R(800)}

PaintIdle ==
    /\ dom = <<>>
    /\ stacking = <<>>
    /\ paintOrder = <<>>

TextIdle ==
    /\ texts = <<>>
    /\ textContext = <<>>
    /\ walkIndex = 0

AppIdle ==
    /\ app = <<>>
    /\ passes = <<>>
    /\ host = <<>>
    /\ settle = <<>>

CallIdle ==
    /\ arg = <<>>
    /\ ret = <<>>

PassIdle ==
    /\ extracted = <<>>
    /\ container = <<>>
    /\ request = <<>>
    /\ layout = <<>>
    /\ drawn = <<>>

InitPaginate ==
    /\ pc = "ready"
    /\ options \in PaginateOptions
    /\ \E n \in 0..MaxItems :
         \E g \in [1..n -> PaginateGeoms] :
            elements = [i \in 1..n |->
                          MakeItem(i, "rect", <<>>, i, g[i],
                                   [width  |-> R(CONTAINER_WIDTH),
                                    height |-> options.pageHeight])]
    /\ pages = <<>>
    /\ PassIdle
    /\ PaintIdle
    /\ TextIdle
    /\ AppIdle
    /\ CallIdle

\* paginateLayoutItems(elements, options)
Paginate ==
    /\ pc = "ready"
    /\ pages' = paginateLayoutItems(elements, options)
    /\ pc' = "paginated"
    /\ UNCHANGED <<elements, options, extracted, container, request, layout, drawn>>
    /\ UNCHANGED <<paintVars, textVars, appVars, callVars>>

NextPaginate == Paginate

SpecPaginate == InitPaginate /\ [][NextPaginate]_vars

----------------------------------------------------------------------------
(* Claims about paginateLayoutItems, checked under SpecPaginate            *)

Range(f) == {f[i] : i \in DOMAIN f}

\* The places <<page, index>> of the returned pages.
Places == {pl \in (1..Len(pages)) \X (1..MaxItems + 1) :
              pl[2] <= Len(pages[pl[1]].elements)}

At(pl) == pages[pl[1]].elements[pl[2]]

\* The input element an output element came from.
InputOf(el) == CHOOSE e \in Range(elements) : e.id = el.id

MultiPageDone == pc = "paginated" /\ ~options.forceSinglePage

MarginOf(opts) == Opt(opts.marginPx, R(DefaultMarginPx))

\* C1: in multi-page mode every element of every returned page equals the
\* input element it came from in every field except position.y and
\* position.yPercent (width, height, x, xPercent, wPercent, hPercent kept).
C1_OnlyYRewritten ==
    MultiPageDone =>
        \A pl \in Places :
            LET out == At(pl)
                in  == InputOf(out)
            IN  [out EXCEPT !.position.y = in.position.y,
                            !.position.yPercent = in.position.yPercent] = in

\* An element on a second page whose y was rewritten.
C1_Witness ==
    /\ MultiPageDone
    /\ \E pl \in Places :
          /\ pl[1] >= 2
          /\ At(pl).position.y # InputOf(At(pl)).position.y
          /\ At(pl).position.height = InputOf(At(pl)).position.height

\* C7 as stated: when every input element has y >= 0 and height <=
\* pageHeight - marginPx (no page cap), every element lies wholly inside its
\* page: 0 <= page-relative y and page-relative y + height <= pageHeight.
C7_NoItemCutByPageBoundary ==
    (/\ MultiPageDone
     /\ options.maxPages = <<>>
     /\ \A e \in Range(elements) :
           /\ RLe(R(0), e.position.y)
           /\ RLe(e.position.height, RSub(options.pageHeight, MarginOf(options))))
    => \A pl \in Places :
          /\ RLe(R(0), At(pl).position.y)
          /\ RLe(RAdd(At(pl).position.y, At(pl).position.height), options.pageHeight)

\* Scenario A: page height 800, margin 12, three 100px blocks at 0, 300, 600.
ScenarioA ==
    /\ ~options.forceSinglePage
    /\ options.pageHeight = R(800)
    /\ options.marginPx = <<R(12)>>
    /\ Len(elements) = 3
    /\ \A i \in 1..3 : /\ elements[i].position.height = R(100)
                       /\ elements[i].position.y = R(300 * (i - 1))

PageIds(p) == [j \in 1..Len(pages[p].elements) |-> pages[p].elements[j].id]
PageYs(p) == [j \in 1..Len(pages[p].elements) |-> pages[p].elements[j].position.y]

\* C8 as stated: blocks 1 and 2 on page 1, block 3 alone on page 2 at y = 0.
C8_ScenarioA_AsStated ==
    (pc = "paginated" /\ ScenarioA) =>
        /\ Len(pages) = 2
        /\ PageIds(1) = <<1, 2>>
        /\ PageIds(2) = <<3>>
        /\ PageYs(2) = <<R(0)>>

\* C8 amended: in scenario A all three blocks are on page 1, in order, with
\* y = 0, 300, 600, and there is no second page (their bottoms 100, 400, 700
\* do not exceed 788).
C8_ScenarioA_OnePage ==
    (pc = "paginated" /\ ScenarioA) =>
        /\ Len(pages) = 1
        /\ PageIds(1) = <<1, 2, 3>>
        /\ PageYs(1) = <<R(0), R(300), R(600)>>

C8_Witness == pc = "paginated" /\ ScenarioA /\ Len(pages) > 0

IsTall(e) == RLt(options.pageHeight, e.position.height)

\* The page (1-based) whose vertical range contains the absolute offset y.
PageContaining(y) == (RDiv(y, options.pageHeight).n \div RDiv(y, options.pageHeight).d) + 1

\* C9 as stated: an element taller than the page is alone on its page, and
\* that page is the one whose vertical range contains its original top.
C9_TallItemAlone ==
    MultiPageDone =>
        \A pl \in Places :
            IsTall(At(pl)) =>
                /\ Len(pages[pl[1]].elements) = 1
                /\ pl[1] = PageContaining(InputOf(At(pl)).position.y)

\* C9 amended: an element taller than the page is never split: it appears at
\* most once in the output, with its width and height unchanged, and exactly
\* once when there is no page cap; with no page cap, when its page-relative
\* top is >= 0 it is the first element of its page.
C9_TallItemWhole ==
    MultiPageDone =>
        \A e \in Range(elements) :
            IsTall(e) =>
                LET at == {pl \in Places : At(pl).id = e.id}
                IN  /\ Cardinality(at) <= 1
                    /\ options.maxPages = <<>> => Cardinality(at) = 1
                    /\ \A pl \in at :
                          /\ At(pl).position.height = e.position.height
                          /\ At(pl).position.width = e.position.width
                          /\ (options.maxPages = <<>> /\ RLe(R(0), At(pl).position.y))
                                => pl[2] = 1

\* A tall element that starts a later page and shares it with another one.
C9_Witness ==
    /\ MultiPageDone
    /\ options.maxPages = <<>>
    /\ \E pl \in Places :
          /\ IsTall(At(pl))
          /\ pl = <<2, 1>>
          /\ RLe(R(0), At(pl).position.y)
          /\ Len(pages[2].elements) = 2

SinglePageDone == pc = "paginated" /\ options.forceSinglePage

ContentHeightOf(opts) == Opt(opts.contentHeight, opts.pageHeight)

\* C11: in single-page mode the scale factor is at most 1, one page is
\* returned, and no element's x, y, width or height on it is larger than
\* the (non-negative) value of the input element.
C11_NeverUpscaled ==
    SinglePageDone =>
        /\ RLe(ScaleFactor(options.pageHeight, ContentHeightOf(options)), R(1))
        /\ Len(pages) = 1
        /\ Len(pages[1].elements) = Len(elements)
        /\ \A i \in DOMAIN elements :
              LET out == pages[1].elements[i].position
                  in  == elements[i].position
              IN  /\ RLe(out.x, in.x)
                  /\ RLe(out.y, in.y)
                  /\ RLe(out.width, in.width)
                  /\ RLe(out.height, in.height)

\* Scenario C: content 1600px high on a page 800px high, an element whose y
\* is halved.
C11_Witness ==
    /\ SinglePageDone
    /\ options.pageHeight = R(800)
    /\ options.contentHeight = <<R(1600)>>
    /\ \E i \in DOMAIN elements :
          /\ elements[i].position.y = R(300)
          /\ pages[1].elements[i].position.y = R(150)
          /\ pages[1].elements[i].position.height = R(50)

----------------------------------------------------------------------------
(* One pass of extractLayoutEnhanced followed by generatePDF               *)

\* The longest list of elements one DOM walk extracts.
MaxExtracted == 3

PassGeoms == [x : {40}, y : {0, 300, 1000}, width : {200}, height : {100}]

PassTypes == {"rect", "text", "image"}

\* The hidden container: CONTAINER_WIDTH x CONTAINER_HEIGHT, with content
\* that fits or that is two pages tall.
PassContainers ==
    [containerInfo : {[width |-> R(CONTAINER_WIDTH), height |-> R(CONTAINER_HEIGHT)]},
     scrollHeight  : {R(CONTAINER_HEIGHT), R(2 * CONTAINER_HEIGHT)}]

PassRequests == [forceSinglePage : BOOLEAN, maxPages : {<<>>, <<0>>, <<1>>}]

\* walkDom visits the paint order with an ascending index i, pushes the shape
\* of element i before its text, and appends the images of extractAllImages
\* after the loop.
InExtractionOrder(t, z) ==
    \A i, j \in DOMAIN t :
        i < j =>
            /\ t[i] = "image" => t[j] = "image"
            /\ (t[i] # "image" /\ t[j] # "image") =>
                  /\ z[i] <= z[j]
                  /\ z[i] = z[j] => (t[i] = "rect" /\ t[j] = "text")

InitPass ==
    /\ pc = "settled"
    /\ container \in PassContainers
    /\ request \in PassRequests
    /\ \E n \in 0..MaxExtracted :
         \E t \in [1..n -> PassTypes], z \in [1..n -> 1..2], g \in [1..n -> PassGeoms] :
            /\ InExtractionOrder(t, z)
            /\ extracted = [i \in 1..n |->
                              MakeItem(i, t[i], IF t[i] = "text" THEN <<"a">> ELSE <<>>,
                                       z[i], g[i], container.containerInfo)]
    /\ elements = <<>>
    /\ options = <<>>
    /\ pages = <<>>
    /\ layout = <<>>
    /\ drawn = <<>>
    /\ PaintIdle
    /\ TextIdle
    /\ AppIdle
    /\ CallIdle

\* extractLayoutEnhanced: walkDom, validateElements, paginateLayoutItems and
\* the conversion to the DocumentLayout's pages.
ExtractLayoutEnhanced ==
    /\ pc = "settled"
    /\ LET result        == WalkDomResult(extracted, container.containerInfo,
                                          container.scrollHeight)
           validElements == validateElements(result.elements)
           opts          == PassOptions(result, request)
           pageBreaks    == paginateLayoutItems(validElements, opts)
       IN  /\ elements' = validElements
           /\ options' = opts
           /\ pages' = pageBreaks
           /\ layout' = LayoutPages(pageBreaks)
    /\ pc' = "extracted"
    /\ UNCHANGED <<extracted, container, request, drawn>>
    /\ UNCHANGED <<paintVars, textVars, appVars, callVars>>

\* generatePDF: every page's elements rendered in the order of
\* sortElementsForRendering.
GeneratePDF ==
    /\ pc = "extracted"
    /\ drawn' = [p \in 1..Len(layout) |-> sortElementsForRendering(layout[p].elements)]
    /\ pc' = "generated"
    /\ UNCHANGED <<extracted, container, request, elements, options, pages, layout>>
    /\ UNCHANGED <<paintVars, textVars, appVars, callVars>>

NextPass == ExtractLayoutEnhanced \/ GeneratePDF

SpecPass == InitPass /\ [][NextPass]_vars

----------------------------------------------------------------------------
(* Claims about a pass, checked under SpecPass                             *)

\* The extracted element a LayoutElement of the DocumentLayout came from.
ExtractedOf(le) == CHOOSE e \in Range(extracted) : e.id = le.id

PaintIndexOf(le) == ExtractedOf(le).zIndex

\* C5 as stated: on every page of the DocumentLayout the elements are listed
\* in ascending paintIndex, ties in extraction order, in both modes, and
\* generatePDF draws them in that order.
C5_PagesInPaintOrder ==
    pc = "generated" =>
        \A p \in 1..Len(layout) :
            /\ \A i, j \in 1..Len(layout[p].elements) :
                  i < j =>
                     LET a == layout[p].elements[i]
                         b == layout[p].elements[j]
                     IN  \/ PaintIndexOf(a) < PaintIndexOf(b)
                         \/ PaintIndexOf(a) = PaintIndexOf(b) /\ a.id < b.id
            /\ drawn[p] = layout[p].elements

PassContentHeight == MeasuredContentHeight(container.containerInfo, container.scrollHeight)
PassPageHeight == container.containerInfo.height

\* C6 as stated: in multi-page mode over content taller than one page (no
\* page cap), every extracted element with positive width and height and
\* non-empty content whose top is below the first page is in the returned
\* DocumentLayout, on a page after the first.
C6_BelowFirstPageKept ==
    (/\ pc = "extracted"
     /\ ~request.forceSinglePage
     /\ request.maxPages = <<>>
     /\ RLt(PassPageHeight, PassContentHeight))
    => \A e \in Range(extracted) :
          (/\ RLt(R(0), e.position.width)
           /\ RLt(R(0), e.position.height)
           /\ e.type = "text" => Len(Trim(e.text)) > 0
           /\ RLt(PassPageHeight, e.position.y))
          => \E p \in 2..Len(layout) :
                \E j \in 1..Len(layout[p].elements) : layout[p].elements[j].id = e.id

\* C10 as stated: a pass started with forceSinglePage whose measured content
\* height exceeds the page height returns one page on which every geometry
\* field is the input value times pageHeight / contentHeight.
C10_SinglePageScaled ==
    (/\ pc = "extracted"
     /\ request.forceSinglePage
     /\ RLt(PassPageHeight, PassContentHeight))
    => /\ Len(pages) = 1
       /\ Len(pages[1].elements) = Len(elements)
       /\ \A j \in 1..Len(elements) :
             LET scale == RDiv(PassPageHeight, PassContentHeight)
                 in    == elements[j].position
                 out   == pages[1].elements[j].position
             IN  /\ out.x = RMul(in.x, scale)
                 /\ out.y = RMul(in.y, scale)
                 /\ out.width = RMul(in.width, scale)
                 /\ out.height = RMul(in.height, scale)
                 /\ out.xPercent = RMul(in.xPercent, scale)
                 /\ out.yPercent = RMul(in.yPercent, scale)
                 /\ out.wPercent = RMul(in.wPercent, scale)
                 /\ out.hPercent = RMul(in.hPercent, scale)

----------------------------------------------------------------------------
(* services/stackingContext.ts                                             *)
(*                                                                         *)
(* dom[e] is element e of the rendered tree, e = 1 the container, elements *)
(* numbered in document order; dom[e].parent is its parent element (0 for  *)
(* the container) and dom[e].style its computed style.  z-index is <<>>    *)
(* for 'auto' and <<n>> for an integer; contain is a set of keywords.      *)

DomChildren(d, e) ==
    LET kids == {c \in DOMAIN d : d[c].parent = e}
        RECURSIVE Ascending(_)
        Ascending(S) ==
            IF S = {} THEN <<>>
            ELSE LET m == CHOOSE x \in S : \A y \in S : x <= y
                 IN  <<m>> \o Ascending(S \ {m})
    IN  Ascending(kids)

\* element === document.documentElement: the container and its descendants
\* are elements below <body>.
IsDocumentElement(e) == FALSE

createsStackingContext(e, styles) ==
    \/ IsDocumentElement(e)
    \/ /\ styles.position \in {"absolute", "relative", "fixed", "sticky"}
       /\ styles.zIndex # <<>>
    \/ RLt(styles.opacity, R(1))
    \/ styles.transform # "none"
    \/ styles.filter # "none"
    \/ styles.perspective # "none"
    \/ styles.clipPath # "none"
    \/ (styles.mask # "none" /\ styles.webkitMask # "none")
    \/ styles.isolation = "isolate"
    \/ styles.mixBlendMode # "normal"
    \/ styles.willChange \in {"opacity", "transform", "filter"}
    \/ "layout" \in styles.contain
    \/ "paint" \in styles.contain
    \/ styles.contain = {"strict"}
    \/ styles.contain = {"content"}

getZIndex(styles) == IF styles.zIndex = <<>> THEN 0 ELSE styles.zIndex[1]

\* Mutant of PushChild: every context is pushed to the root context.
PushChildToRoot(st, owner, child) ==
    [st EXCEPT !.ctx = [@ EXCEPT ![1].children = Append(@, child)]]

\* context.children.push(child) on the StackingContext of element owner.
PushChild(st, owner, child) ==
    [st EXCEPT !.ctx = [@ EXCEPT ![owner].children = Append(@, child)]]

\* buildContext(element, parent): parent is the element of the parent
\* StackingContext, 0 for null.  st holds orderCounter and the contexts
\* created so far, keyed by their element.
RECURSIVE BuildContext(_, _, _, _)
RECURSIVE BuildChildren(_, _, _, _, _)

BuildContext(d, e, parent, st) ==
    LET context == [element  |-> e,
                    zIndex   |-> getZIndex(d[e].style),
                    order    |-> st.orderCounter,
                    isRoot   |-> parent = 0,
                    parent   |-> parent,
                    children |-> <<>>]
        st1 == [orderCounter |-> st.orderCounter + 1,
                ctx          |-> st.ctx @@ (e :> context)]
    IN  BuildChildren(d, e, parent, DomChildren(d, e), st1)

\* The loop over element.children of buildContext(e, parent).
BuildChildren(d, e, parent, kids, st) ==
    IF kids = <<>> THEN st
    ELSE LET child        == Head(kids)
             isNewContext == createsStackingContext(e, d[e].style)
         IN  IF d[child].style.display = "none"
             THEN BuildChildren(d, e, parent, Tail(kids), st)
             ELSE LET built == BuildContext(d, child,
                                            IF isNewContext THEN e ELSE parent, st)
                      pushed == IF isNewContext THEN PushChild(built, e, child)
                                ELSE IF parent # 0 THEN PushChild(built, parent, child)
                                ELSE built
                  IN  BuildChildren(d, e, parent, Tail(kids), pushed)

\* A build that keeps the contexts of the run before instead of creating
\* them anew.
buildStackingContextTreeOnStaleContexts(d) ==
    BuildContext(d, 1, 0, [orderCounter |-> 0, ctx |-> stacking]).ctx

\* buildStackingContextTree(container): the contexts, keyed by element; the
\* returned root is the context of element 1.
buildStackingContextTree(d) ==
    BuildContext(d, 1, 0, [orderCounter |-> 0, ctx |-> <<>>]).ctx

\* The comparator of getPaintOrder's sort, as "a sorts before b".
PaintLess(a, b) ==
    IF a.zIndex # b.zIndex THEN a.zIndex < b.zIndex ELSE a.order < b.order

RECURSIVE InsertChild(_, _, _)
InsertChild(ctxs, sortedSeq, c) ==
    IF sortedSeq = <<>> THEN <<c>>
    ELSE IF PaintLess(ctxs[c], ctxs[sortedSeq[Len(sortedSeq)]])
         THEN Append(InsertChild(ctxs, SubSeq(sortedSeq, 1, Len(sortedSeq) - 1), c),
                     sortedSeq[Len(sortedSeq)])
         ELSE Append(sortedSeq, c)

RECURSIVE SortChildren(_, _)
SortChildren(ctxs, kids) ==
    IF kids = <<>> THEN <<>>
    ELSE InsertChild(ctxs, SortChildren(ctxs, SubSeq(kids, 1, Len(kids) - 1)),
                     kids[Len(kids)])

\* processContext(context): the element, then the children with negative,
\* zero and positive z-index, each processed recursively.
RECURSIVE ProcessContext(_, _)
RECURSIVE ProcessAll(_, _)

ProcessContext(ctxs, c) ==
    LET sortedChildren == SortChildren(ctxs, ctxs[c].children)
        IsNegative(k) == ctxs[k].zIndex < 0
        IsZero(k)     == ctxs[k].zIndex = 0
        IsPositive(k) == ctxs[k].zIndex > 0
    IN  <<ctxs[c].element>>
           \o ProcessAll(ctxs, SelectSeq(sortedChildren, IsNegative))
           \o ProcessAll(ctxs, SelectSeq(sortedChildren, IsZero))
           \o ProcessAll(ctxs, SelectSeq(sortedChildren, IsPositive))

ProcessAll(ctxs, kids) ==
    IF kids = <<>> THEN <<>>
    ELSE ProcessContext(ctxs, Head(kids)) \o ProcessAll(ctxs, Tail(kids))

getPaintOrder(ctxs) == ProcessContext(ctxs, 1)

----------------------------------------------------------------------------
(* Paint order of a rendered tree: walkDom lines 116-117                   *)

\* The largest number of elements of a rendered tree, container included.
MaxNodes == 4

DefaultStyle ==
    [position     |-> "static",
     zIndex       |-> <<>>,
     opacity      |-> R(1),
     transform    |-> "none",
     filter       |-> "none",
     perspective  |-> "none",
     clipPath     |-> "none",
     mask         |-> "none",
     webkitMask   |-> "none",
     isolation    |-> "auto",
     mixBlendMode |-> "normal",
     willChange   |-> "auto",
     contain      |-> {"none"},
     display      |-> "block",
     visibility   |-> "visible"]

Positioned(z) == [DefaultStyle EXCEPT !.position = "absolute", !.zIndex = <<z>>]

\* The styles of the elements a component renders.
NodeStyles ==
    {DefaultStyle,
     Positioned(-1), Positioned(0), Positioned(1), Positioned(5),
     [DefaultStyle EXCEPT !.zIndex = <<5>>],
     [DefaultStyle EXCEPT !.opacity = Rat(9, 10)],
     [DefaultStyle EXCEPT !.display = "none"]}

\* The container as parseTsxToLayout styles it (position: absolute, z-index
\* auto after all: initial), and a container made translucent by a style
\* sheet.
ContainerStyles ==
    {[DefaultStyle EXCEPT !.position = "absolute"],
     [DefaultStyle EXCEPT !.position = "absolute", !.opacity = Rat(9, 10)]}

RECURSIVE IsAncestorOrSelf(_, _, _)
IsAncestorOrSelf(parentOf, a, e) ==
    IF e = a THEN TRUE
    ELSE IF e <= 1 THEN FALSE
    ELSE IsAncestorOrSelf(parentOf, a, parentOf[e])

\* parentOf numbers a tree in document (pre-)order: the parent of e is e - 1
\* or an ancestor of e - 1.
IsDocumentOrder(parentOf, n) ==
    /\ \A e \in 2..n : parentOf[e] < e
    /\ \A e \in 2..n : IsAncestorOrSelf(parentOf, parentOf[e], e - 1)

InitPaint ==
    /\ pc = "rendered"
    /\ \E n \in 1..MaxNodes :
         \E parentOf \in [2..n -> 1..n], sty \in [2..n -> NodeStyles],
            rootStyle \in ContainerStyles :
            /\ IsDocumentOrder(parentOf, n)
            /\ dom = [e \in 1..n |->
                        IF e = 1 THEN [parent |-> 0, style |-> rootStyle]
                        ELSE [parent |-> parentOf[e], style |-> sty[e]]]
    /\ stacking = <<>>
    /\ paintOrder = <<>>
    /\ pages = <<>>
    /\ elements = <<>>
    /\ options = <<>>
    /\ PassIdle
    /\ TextIdle
    /\ AppIdle
    /\ CallIdle

\* const stackingContext = buildStackingContextTree(container)
BuildStackingContextTree ==
    /\ pc = "rendered"
    /\ stacking' = buildStackingContextTree(dom)
    /\ pc' = "built"
    /\ UNCHANGED <<dom, paintOrder, passVars, textVars, appVars, callVars>>

\* const paintOrder = getPaintOrder(stackingContext)
GetPaintOrder ==
    /\ pc = "built"
    /\ paintOrder' = getPaintOrder(stacking)
    /\ pc' = "painted"
    /\ UNCHANGED <<dom, stacking, passVars, textVars, appVars, callVars>>

NextPaint == BuildStackingContextTree \/ GetPaintOrder

SpecPaint == InitPaint /\ [][NextPaint]_vars

----------------------------------------------------------------------------
(* Claims about the paint order, checked under SpecPaint                   *)

\* e is the container or an element that is not under a display:none
\* element (itself included).
RECURSIVE IsRendered(_)
IsRendered(e) ==
    IF e = 1 THEN TRUE
    ELSE dom[e].style.display # "none" /\ IsRendered(dom[e].parent)

RECURSIVE IsInSubtree(_, _)
IsInSubtree(a, e) ==
    IF e = a THEN TRUE
    ELSE IF e <= 1 THEN FALSE
    ELSE IsInSubtree(a, dom[e].parent)

Subtree(a) == {e \in DOMAIN dom : IsInSubtree(a, e) /\ IsRendered(e)}

Indexes(e) == {i \in DOMAIN paintOrder : paintOrder[i] = e}

\* x is visited, and visited before y is.
VisitedBefore(x, y) ==
    /\ Indexes(x) # {}
    /\ Indexes(y) # {}
    /\ \A i \in Indexes(x), j \in Indexes(y) : i < j

HasZOrder(e) == dom[e].style.position = "absolute" /\ dom[e].style.zIndex # <<>>

\* C3 as stated, for siblings that are positioned with an integer z-index:
\* the subtree of the sibling with the lower z-index is visited wholly before
\* the subtree of the sibling with the higher one, and siblings with equal
\* z-index are visited in document order.
C3_SiblingsInZOrder ==
    pc = "painted" =>
        \A a, b \in DOMAIN dom :
            (/\ a # b
             /\ a # 1 /\ b # 1
             /\ dom[a].parent = dom[b].parent
             /\ IsRendered(a) /\ IsRendered(b)
             /\ HasZOrder(a) /\ HasZOrder(b)
             /\ \/ getZIndex(dom[a].style) < getZIndex(dom[b].style)
                \/ getZIndex(dom[a].style) = getZIndex(dom[b].style) /\ a < b)
            => \A x \in Subtree(a), y \in Subtree(b) : VisitedBefore(x, y)

\* C4 as stated: the paint order of any container holds the container and
\* every rendered descendant exactly once, and nothing else.
C4_PaintOrderTotal ==
    pc = "painted" =>
        /\ \A e \in DOMAIN dom : IsRendered(e) => Cardinality(Indexes(e)) = 1
        /\ \A i \in DOMAIN paintOrder : IsRendered(paintOrder[i])

----------------------------------------------------------------------------
(* services/positionCalculator.ts, services/textExtractor.ts               *)

\* calculateRectPosition: a DOMRect made relative to the container, the
\* container's scroll offsets added.
calculateRectPosition(rect, containerInfo) ==
    PreciseRect(RAdd(RSub(rect.left, containerInfo.rect.left), containerInfo.scrollLeft),
                RAdd(RSub(rect.top, containerInfo.rect.top), containerInfo.scrollTop),
                rect.width, rect.height, containerInfo)

\* getPositionKey: the string `${x},${y},${w},${h}` of the four rounded
\* numbers, kept as the tuple of the four numbers it spells.
getPositionKey(rect) ==
    <<RoundNumber(rect.x), RoundNumber(rect.y),
      RoundNumber(rect.width), RoundNumber(rect.height)>>

createTextExtractionContext(containerInfo) ==
    [containerInfo |-> containerInfo,
     visitedNodes  |-> {},
     positionMap   |-> <<>>,
     idCounter     |-> 0]

\* replace(/\s+/g, ' '): every run of whitespace becomes one space.
RECURSIVE CollapseWhitespace(_)
CollapseWhitespace(txt) ==
    IF txt = <<>> THEN <<>>
    ELSE IF IsWhitespace(txt[1])
         THEN IF Len(txt) > 1 /\ IsWhitespace(txt[2])
              THEN CollapseWhitespace(Tail(txt))
              ELSE <<" ">> \o CollapseWhitespace(Tail(txt))
         ELSE <<txt[1]>> \o CollapseWhitespace(Tail(txt))

\* e has a layout box: neither e nor an ancestor of e is display:none.
RECURSIVE HasBox(_, _)
HasBox(d, e) ==
    IF e = 0 THEN TRUE
    ELSE d[e].style.display # "none" /\ HasBox(d, d[e].parent)

RECURSIVE Contains(_, _, _)
Contains(d, a, e) ==
    IF e = a THEN TRUE
    ELSE IF e = 0 THEN FALSE
    ELSE Contains(d, a, d[e].parent)

\* getTextNodes: the text nodes under element, in document order, whose
\* trimmed text is not empty.
getTextNodes(d, nodes, element) ==
    SelectSeq([t \in DOMAIN nodes |-> t],
              LAMBDA t : /\ Contains(d, element, nodes[t].parent)
                         /\ Trim(nodes[t].text) # <<>>)

\* range.getClientRects() of a text node: nothing for a node without a
\* layout box.
ClientRects(d, nodes, t) ==
    IF HasBox(d, nodes[t].parent) THEN nodes[t].rects ELSE <<>>

RMin(a, b) == IF RLt(b, a) THEN b ELSE a

\* Math.min(...values) and Math.max(...values); Infinity and -Infinity for
\* no values.
RECURSIVE MathMin(_)
MathMin(values) ==
    IF values = <<>> THEN Infinity ELSE RMin(values[1], MathMin(Tail(values)))

RECURSIVE MathMax(_)
MathMax(values) ==
    IF values = <<>> THEN NegInfinity ELSE RMax(values[1], MathMax(Tail(values)))

\* The rectangle combined from the rects of a node that has none or several.
CombinedRect(rects) ==
    LET left   == MathMin([i \in DOMAIN rects |-> rects[i].left])
        top    == MathMin([i \in DOMAIN rects |-> rects[i].top])
        right  == MathMax([i \in DOMAIN rects |-> RAdd(rects[i].left, rects[i].width)])
        bottom == MathMax([i \in DOMAIN rects |-> RAdd(rects[i].top, rects[i].height)])
    IN  [left |-> left, top |-> top,
         width |-> RSub(right, left), height |-> RSub(bottom, top)]

MinTextSize == Rat(1, 2)

\* The dedup check without its map: no position is ever taken.
HasPositionNever(context, posKey) == FALSE

\* context.positionMap.has(posKey)
HasPosition(context, posKey) == posKey \in DOMAIN context.positionMap

\* The TextElement both branches of extractTextLines build; styledBy names
\* the element whose computed styles fill color, fontSize, fontWeight,
\* fontFamily, align and lineHeight.
MakeTextElement(context, fullText, position, element, zIndex) ==
    [id       |-> <<"text", context.idCounter + 1>>,
     type     |-> "text",
     text     |-> fullText,
     position |-> position,
     styledBy |-> element,
     zIndex   |-> zIndex]

\* One iteration of the loop over textNodes, on the pair of the context and
\* the results so far.
ExtractTextNode(d, nodes, st, t, element, zIndex) ==
    IF t \in st.context.visitedNodes THEN st
    ELSE
    LET visited  == [st EXCEPT !.context.visitedNodes = @ \cup {t}]
        rects    == ClientRects(d, nodes, t)
        fullText == Trim(CollapseWhitespace(nodes[t].text))
        rect     == IF Len(rects) = 1 THEN rects[1] ELSE CombinedRect(rects)
        position == calculateRectPosition(rect, st.context.containerInfo)
        posKey   == getPositionKey(position)
        textElement == MakeTextElement(st.context, fullText, position, element, zIndex)
    IN  IF fullText = <<>> THEN visited
        ELSE IF Len(rects) = 1 /\ (RLt(rect.width, MinTextSize) \/ RLt(rect.height, MinTextSize))
        THEN visited
        ELSE IF HasPosition(st.context, posKey) THEN visited
        ELSE [context |-> [visited.context EXCEPT
                              !.idCounter = @ + 1,
                              !.positionMap = (posKey :> textElement) @@ @],
              results |-> Append(visited.results, textElement)]

RECURSIVE ExtractTextNodes(_, _, _, _, _, _)
ExtractTextNodes(d, nodes, st, textNodes, element, zIndex) ==
    IF textNodes = <<>> THEN st
    ELSE ExtractTextNodes(d, nodes,
                          ExtractTextNode(d, nodes, st, textNodes[1], element, zIndex),
                          Tail(textNodes), element, zIndex)

IsInvisible(style) == style.display = "none" \/ style.visibility = "hidden"

\* extractTextLines(element, context, zIndex): the context after the call
\* and the TextElements it returns.
extractTextLines(d, nodes, element, context, zIndex) ==
    IF IsInvisible(d[element].style) THEN [context |-> context, results |-> <<>>]
    ELSE ExtractTextNodes(d, nodes, [context |-> context, results |-> <<>>],
                          getTextNodes(d, nodes, element), element, zIndex)

----------------------------------------------------------------------------
(* The text extraction of walkDom, over small rendered trees               *)

MaxTextNodes == 2

\* The hidden container sits at (-9999, -9999) of the viewport.
ContainerLeft == R(-9999)
ContainerTop == R(-9999)

ViewportRect(x, y, width, height) ==
    [left |-> RAdd(ContainerLeft, x), top |-> RAdd(ContainerTop, y),
     width |-> width, height |-> height]

\* A line box, the same box a fraction of a pixel to the right, the line
\* below it, and a box too thin to print.
LineRect == ViewportRect(R(10), R(0), R(50), R(20))
ShiftedLineRect == ViewportRect(Rat(52, 5), R(0), R(50), R(20))
SecondLineRect == ViewportRect(R(10), R(20), R(50), R(20))
ThinRect == ViewportRect(R(10), R(0), Rat(1, 4), R(20))

\* What a text node holds and how it is laid out.
TextContents ==
    {[text |-> <<"a">>, rects |-> <<LineRect>>],
     [text |-> <<"a", " ", " ", "b">>, rects |-> <<ShiftedLineRect>>],
     [text |-> <<"a">>, rects |-> <<LineRect, SecondLineRect>>],
     [text |-> <<"a">>, rects |-> <<ThinRect>>],
     [text |-> <<"a">>, rects |-> <<>>],
     [text |-> <<" ">>, rects |-> <<LineRect>>]}

\* parentOf of the rendered trees: the container alone, with one child,
\* with two children, with a child and a grandchild.
TextTrees == {<<0>>, <<0, 1>>, <<0, 1, 1>>, <<0, 1, 2>>}

TextStyles ==
    {DefaultStyle,
     Positioned(1),
     [DefaultStyle EXCEPT !.display = "none"],
     [DefaultStyle EXCEPT !.visibility = "hidden"],
     [DefaultStyle EXCEPT !.opacity = R(0)]}

TextContainers ==
    {[containerInfo |-> [rect       |-> [left |-> ContainerLeft, top |-> ContainerTop],
                         width      |-> R(CONTAINER_WIDTH),
                         height     |-> R(CONTAINER_HEIGHT),
                         scrollLeft |-> R(0),
                         scrollTop  |-> scrollTop],
      scrollHeight  |-> R(CONTAINER_HEIGHT)] : scrollTop \in {R(0), Rat(1, 2)}}

\* The text nodes are numbered in document order: nodes of unrelated
\* elements follow the order of the elements, and the nodes under one
\* element are consecutive.
IsTextDocumentOrder(d, nodes) ==
    /\ \A i, j \in DOMAIN nodes :
          (/\ i < j
           /\ ~Contains(d, nodes[i].parent, nodes[j].parent)
           /\ ~Contains(d, nodes[j].parent, nodes[i].parent))
          => nodes[i].parent < nodes[j].parent
    /\ \A i, j, k \in DOMAIN nodes, e \in DOMAIN d :
          (/\ i < j /\ j < k
           /\ Contains(d, e, nodes[i].parent)
           /\ Contains(d, e, nodes[k].parent))
          => Contains(d, e, nodes[j].parent)

InitText ==
    /\ pc = "rendered"
    /\ \E parentOf \in TextTrees :
         \E sty \in [DOMAIN parentOf -> TextStyles], rootStyle \in ContainerStyles :
            dom = [e \in DOMAIN parentOf |->
                     IF e = 1 THEN [parent |-> 0, style |-> rootStyle]
                     ELSE [parent |-> parentOf[e], style |-> sty[e]]]
    /\ \E n \in 0..MaxTextNodes :
         \E par \in [1..n -> DOMAIN dom], content \in [1..n -> TextContents] :
            texts = [t \in 1..n |-> [parent |-> par[t],
                                     text   |-> content[t].text,
                                     rects  |-> content[t].rects]]
    /\ IsTextDocumentOrder(dom, texts)
    /\ container \in TextContainers
    /\ stacking = <<>>
    /\ paintOrder = <<>>
    /\ textContext = <<>>
    /\ walkIndex = 0
    /\ AppIdle
    /\ CallIdle
    /\ extracted = <<>>
    /\ request = <<>>
    /\ elements = <<>>
    /\ options = <<>>
    /\ pages = <<>>
    /\ layout = <<>>
    /\ drawn = <<>>

\* const textContext = createTextExtractionContext(containerInfo)
CreateTextExtractionContext ==
    /\ pc = "painted"
    /\ textContext' = createTextExtractionContext(container.containerInfo)
    /\ walkIndex' = 0
    /\ pc' = "walking"
    /\ UNCHANGED <<texts, paintVars, passVars, appVars, callVars>>

\* One iteration of walkDom's loop over the paint order, as far as text
\* goes: the container and invisible elements are skipped, the TextElements
\* of extractTextLines(element, textContext, i) are pushed.
VisitElement ==
    /\ pc = "walking"
    /\ walkIndex < Len(paintOrder)
    /\ LET element == paintOrder[walkIndex + 1]
           call == extractTextLines(dom, texts, element, textContext, walkIndex)
       IN  IF element = 1 \/ IsInvisible(dom[element].style)
           THEN UNCHANGED <<extracted, textContext>>
           ELSE /\ extracted' = extracted \o call.results
                /\ textContext' = call.context
    /\ walkIndex' = walkIndex + 1
    /\ UNCHANGED <<pc, texts, paintVars, container, request, elements,
                   options, pages, layout, drawn, appVars, callVars>>

NextText ==
    \/ BuildStackingContextTree
    \/ GetPaintOrder
    \/ CreateTextExtractionContext
    \/ VisitElement

SpecText == InitText /\ [][NextText]_vars

----------------------------------------------------------------------------
(* Claims about the text extraction, checked under SpecText                *)

\* The text node is one extractTextLines prints unless its position is
\* taken: its text is not blank and its single rect is not too small.
IsPrintable(t) ==
    LET rects == ClientRects(dom, texts, t)
    IN  /\ Trim(CollapseWhitespace(texts[t].text)) # <<>>
        /\ Len(rects) = 1 =>
              /\ ~RLt(rects[1].width, MinTextSize)
              /\ ~RLt(rects[1].height, MinTextSize)

KeyOfNode(t) ==
    LET rects == ClientRects(dom, texts, t)
        rect  == IF Len(rects) = 1 THEN rects[1] ELSE CombinedRect(rects)
    IN  getPositionKey(calculateRectPosition(rect, container.containerInfo))

\* C2: at every point of the walk, no two TextElements emitted so far have
\* the same position key (x, y, width and height rounded to the pixel).
C2_PositionKeysDistinct ==
    pc = "walking" =>
        \A i, j \in DOMAIN extracted :
            i # j => getPositionKey(extracted[i].position)
                        # getPositionKey(extracted[j].position)

\* Two printable text nodes at the same position key have both been
\* visited, the second by a later call than the first, and one TextElement
\* has been emitted for the two.
C2_Witness ==
    /\ pc = "walking"
    /\ Len(extracted) = 1
    /\ extracted[1].zIndex < walkIndex - 1
    /\ IsFinite(extracted[1].position.x)
    /\ \E t, u \in textContext.visitedNodes :
          /\ t # u
          /\ IsPrintable(t) /\ IsPrintable(u)
          /\ KeyOfNode(t) = KeyOfNode(u)

----------------------------------------------------------------------------
(* Further claims about a pass, checked under SpecPass                     *)

LayoutReturned == pc \in {"extracted", "generated"}

\* C12: the DocumentLayout a pass returns has at least one page, whatever
\* was extracted, whatever survived validation and whatever the page cap.
C12_AtLeastOnePage ==
    LayoutReturned => Len(layout) >= 1

\* A pass capped at 0 pages whose valid elements were put on no page: the
\* layout has the one empty page added at the end.
C12_Witness ==
    /\ LayoutReturned
    /\ request.maxPages = <<0>>
    /\ ~request.forceSinglePage
    /\ elements # <<>>
    /\ pages = <<>>
    /\ Len(layout) = 1
    /\ layout[1].elements = <<>>

----------------------------------------------------------------------------
(* App.tsx and parseTsxToLayout: the App's events and the passes they start *)

MaxPasses == 2

\* What the loaded file does when it is compiled, run and rendered.
ComponentKinds ==
    {"compileError", "noExport", "renderThrows", "rendersNothing", "rendersTree"}

ExportFormats == {"PDF", "PPTX"}

\* parseTsxToLayout up to its first await: the error it throws, or <<>>
\* when the component has been rendered into the cleared container.
ParseFailure(hostPresent, component) ==
    IF ~hostPresent THEN <<"Hidden analysis container missing from DOM.">>
    ELSE IF component = "compileError" THEN <<"Compile or execution error">>
    ELSE IF component = "noExport" THEN <<"No React component export detected.">>
    ELSE IF component = "renderThrows" THEN <<"Render failed">>
    ELSE <<>>

\* The elements walkDom finds under the container: none for a container
\* without a child element.
RenderedElements(component) ==
    IF component = "rendersTree"
    THEN <<MakeItem(1, "rect", <<>>, 1, [x |-> 40, y |-> 0, width |-> 200, height |-> 100],
                    [width |-> R(CONTAINER_WIDTH), height |-> R(CONTAINER_HEIGHT)])>>
    ELSE <<>>

\* The DocumentLayout.pages extractLayoutEnhanced returns for the tree of
\* component.
ExtractedLayout(component, req) ==
    LET result == WalkDomResult(RenderedElements(component),
                                [width |-> R(CONTAINER_WIDTH), height |-> R(CONTAINER_HEIGHT)],
                                R(CONTAINER_HEIGHT))
    IN  LayoutPages(paginateLayoutItems(validateElements(result.elements),
                                        PassOptions(result, req)))

InFlight(p) == passes[p].pc \in {"settling", "extracting"}

\* readyToRender && status !== 'analyzing', on the button shown while
\* status !== 'preview' and on the Retry of the error display.
CanStart ==
    /\ app.fileName
    /\ app.targetFormat # <<>>
    /\ app.status # "analyzing"
    /\ app.status # "preview"

InitApp ==
    /\ pc = "mounted"
    /\ app = [tsxContent      |-> <<>>,
              fileName        |-> FALSE,
              reading         |-> <<>>,
              targetFormat    |-> <<>>,
              status          |-> "idle",
              layout          |-> <<>>,
              errorMsg        |-> <<>>,
              forceSinglePage |-> FALSE]
    /\ passes = <<>>
    /\ host \in [present : BOOLEAN, renderedBy : {0}]
    /\ settle = <<>>
    /\ CallIdle
    /\ PassIdle
    /\ elements = <<>>
    /\ options = <<>>
    /\ pages = <<>>
    /\ PaintIdle
    /\ TextIdle

AppUnchanged == UNCHANGED <<pc, passVars, paintVars, textVars, settle, callVars>>

\* handleIncomingFile with a file of an allowed type: the name is set and
\* the FileReader is started.
HandleIncomingFile ==
    /\ \E component \in ComponentKinds :
          app' = [app EXCEPT !.fileName = TRUE, !.reading = <<component>>]
    /\ UNCHANGED <<passes, host>>
    /\ AppUnchanged

\* handleIncomingFile with a file of another type.
RejectIncomingFile ==
    /\ app' = [app EXCEPT !.status = "error",
                          !.errorMsg = <<"Unsupported file type.">>]
    /\ UNCHANGED <<passes, host>>
    /\ AppUnchanged

\* reader.onload
ReaderOnLoad ==
    /\ app.reading # <<>>
    /\ app' = [app EXCEPT !.tsxContent = app.reading,
                          !.reading = <<>>,
                          !.status = "idle",
                          !.layout = <<>>,
                          !.targetFormat = <<>>]
    /\ UNCHANGED <<passes, host>>
    /\ AppUnchanged

\* The PDF and PPTX buttons, disabled while there is no file name.
SetTargetFormat ==
    /\ app.fileName
    /\ \E format \in ExportFormats : app' = [app EXCEPT !.targetFormat = <<format>>]
    /\ UNCHANGED <<passes, host>>
    /\ AppUnchanged

\* processFile from Start Rendering or Retry, up to the first await of
\* parseTsxToLayout: either the call throws and the catch block runs, or the
\* container is cleared, the component is rendered and the pass awaits
\* settleLayout.
ProcessFile ==
    /\ CanStart
    /\ app.tsxContent # <<>>
    /\ Len(passes) < MaxPasses
    /\ LET component == app.tsxContent[1]
           failure   == ParseFailure(host.present, component)
           p         == Len(passes) + 1
           call      == [component |-> component,
                         request   |-> [forceSinglePage |-> app.forceSinglePage,
                                        maxPages        |-> <<>>],
                         saw       |-> 0]
       IN  IF failure # <<>>
           THEN /\ passes' = Append(passes, call @@ [pc |-> "thrown", result |-> failure])
                /\ app' = [app EXCEPT !.status = "error", !.errorMsg = failure]
                /\ UNCHANGED host
           ELSE /\ passes' = Append(passes, call @@ [pc |-> "settling", result |-> <<>>])
                /\ app' = [app EXCEPT !.status = "analyzing", !.errorMsg = <<>>]
                /\ host' = [host EXCEPT !.renderedBy = p]
    /\ AppUnchanged

\* settleLayout of pass p is over and extractLayoutEnhanced starts on
\* whatever the container holds now.
SettleLayout ==
    /\ \E p \in DOMAIN passes :
          /\ passes[p].pc = "settling"
          /\ passes' = [passes EXCEPT ![p].pc = "extracting", ![p].saw = host.renderedBy]
    /\ UNCHANGED <<app, host>>
    /\ AppUnchanged

\* Pass p returns: root.unmount() in the finally block, then processFile
\* stores the layout and shows the preview.  The unmount of a root whose
\* container was re-rendered by a later pass may or may not empty it.
PassReturns ==
    /\ \E p \in DOMAIN passes :
          /\ passes[p].pc = "extracting"
          /\ LET tree == IF passes[p].saw = 0 THEN "rendersNothing"
                         ELSE passes[passes[p].saw].component
                 result == ExtractedLayout(tree, passes[p].request)
             IN  /\ passes' = [passes EXCEPT ![p].pc = "returned", ![p].result = result]
                 /\ app' = [app EXCEPT !.layout = <<result>>, !.status = "preview"]
          /\ \/ host' = [host EXCEPT !.renderedBy = 0]
             \/ host.renderedBy # p /\ UNCHANGED host
    /\ AppUnchanged

\* reset
Reset ==
    /\ app' = [app EXCEPT !.status = "idle",
                          !.layout = <<>>,
                          !.targetFormat = <<>>,
                          !.errorMsg = <<>>,
                          !.forceSinglePage = FALSE]
    /\ UNCHANGED <<passes, host>>
    /\ AppUnchanged

NextApp ==
    \/ HandleIncomingFile
    \/ RejectIncomingFile
    \/ ReaderOnLoad
    \/ SetTargetFormat
    \/ ProcessFile
    \/ SettleLayout
    \/ PassReturns
    \/ Reset

SpecApp == InitApp /\ [][NextApp]_vars

----------------------------------------------------------------------------
(* Claims about the App and its passes, checked under SpecApp              *)

\* C13 as stated: a pass started without the analysis container, or for a
\* component that leaves the container without a child element, ends with
\* an error and returns no DocumentLayout.
C13_NoVisibleRootIsAnError ==
    \A p \in DOMAIN passes :
        (/\ passes[p].pc \in {"thrown", "returned"}
         /\ \/ ~host.present
            \/ passes[p].component = "rendersNothing" /\ passes[p].saw \in {0, p})
        => passes[p].pc = "thrown"

\* C14 as stated: at most one pass is in flight at any time.
C14_OnePassInFlight ==
    Cardinality({p \in DOMAIN passes : InFlight(p)}) <= 1

----------------------------------------------------------------------------
(* settleLayout and the rest of a pass, with the time its waits take       *)

FontTimeoutMs == 1200
ImageTimeoutMs == 1400

MaxImages == 2
TickMs == 100
MaxWaitMs == 2000

Min(a, b) == IF a < b THEN a ELSE b

\* Mutant of ArmTimer: withTimeout races the promise against nothing.
ArmNoTimer(timeoutMs) == <<>>

\* withTimeout: window.setTimeout(() => resolve(fallback), timeoutMs)
ArmTimer(timeoutMs) == <<timeoutMs>>

AllComplete(images) == \A i \in DOMAIN images : images[i] = "complete"

\* The wait is over (its promise resolved or its timer fired, the timer is
\* cleared) and settleLayout awaits the second frame.
AwaitSecondFrame(s, how) ==
    [s EXCEPT !.pc = "frame2", !.timer = <<>>, !.elapsed = 0,
              !.endedBy = Append(@, how)]

\* waitForImages(container, 1400): nothing to wait for without an <img> or
\* when every image is complete; otherwise the tasks race the timer.
WaitForImages(s, how) ==
    LET ended == [s EXCEPT !.endedBy = Append(@, how)]
    IN  IF ended.images = <<>> THEN AwaitSecondFrame(ended, "no images")
        ELSE IF AllComplete(ended.images) THEN AwaitSecondFrame(ended, "complete")
        ELSE [ended EXCEPT !.pc = "images",
                           !.timer = ArmTimer(ImageTimeoutMs),
                           !.elapsed = 0]

\* waitForFonts(1200): nothing to wait for without document.fonts.ready;
\* otherwise fonts.ready races the timer.
WaitForFonts(s) ==
    IF ~s.hasFontsReady THEN WaitForImages(s, "no fonts")
    ELSE [s EXCEPT !.pc = "fonts", !.timer = ArmTimer(FontTimeoutMs), !.elapsed = 0]

SettleUnchanged ==
    UNCHANGED <<pc, passVars, paintVars, textVars, app, passes, host, callVars>>

\* The component has been rendered and settleLayout awaits the first frame.
InitSettle ==
    /\ pc = "rendered"
    /\ \E hasFontsReady \in BOOLEAN, n \in 0..MaxImages :
         \E images \in [1..n -> {"complete", "pending"}] :
            settle = [pc            |-> "frame1",
                      hasFontsReady |-> hasFontsReady,
                      images        |-> images,
                      timer         |-> <<>>,
                      elapsed       |-> 0,
                      endedBy       |-> <<>>,
                      result        |-> <<>>]
    /\ app = <<>>
    /\ passes = <<>>
    /\ host = <<>>
    /\ CallIdle
    /\ PassIdle
    /\ elements = <<>>
    /\ options = <<>>
    /\ pages = <<>>
    /\ PaintIdle
    /\ TextIdle

\* The requestAnimationFrame callback of waitForNextFrame.
AnimationFrame ==
    /\ settle.pc \in {"frame1", "frame2"}
    /\ settle' = IF settle.pc = "frame1" THEN WaitForFonts(settle)
                 ELSE [settle EXCEPT !.pc = "extracting"]
    /\ SettleUnchanged

\* document.fonts.ready resolves.
FontsReady ==
    /\ settle.pc = "fonts"
    /\ settle' = WaitForImages(settle, "ready")
    /\ SettleUnchanged

\* An image reports load or error, or its decode() resolves; the last of
\* them resolves Promise.all(tasks).
ImageSettles ==
    /\ settle.pc \in {"frame1", "fonts", "images"}
    /\ \E i \in DOMAIN settle.images :
          /\ settle.images[i] = "pending"
          /\ LET loaded == [settle EXCEPT !.images[i] = "complete"]
             IN  settle' = IF settle.pc = "images" /\ AllComplete(loaded.images)
                           THEN AwaitSecondFrame(loaded, "complete")
                           ELSE loaded
    /\ SettleUnchanged

\* Time passes during a wait, up to the moment its timer is due.
Tick ==
    /\ settle.pc \in {"fonts", "images"}
    /\ LET limit == IF settle.timer = <<>> THEN MaxWaitMs ELSE settle.timer[1]
       IN  /\ settle.elapsed < limit
           /\ settle' = [settle EXCEPT !.elapsed = Min(@ + TickMs, limit)]
    /\ SettleUnchanged

\* The setTimeout callback of withTimeout resolves the race with the
\* fallback.
TimerFires ==
    /\ settle.pc \in {"fonts", "images"}
    /\ settle.timer # <<>>
    /\ settle.elapsed >= settle.timer[1]
    /\ settle' = IF settle.pc = "fonts" THEN WaitForImages(settle, "timeout")
                 ELSE AwaitSecondFrame(settle, "timeout")
    /\ SettleUnchanged

\* The layout of the rendered component.
SettledLayout ==
    ExtractedLayout("rendersTree", [forceSinglePage |-> FALSE, maxPages |-> <<>>])

\* extractLayoutEnhanced returns and parseTsxToLayout returns its layout;
\* an <img> that never loaded is drawn as it is, without a wait.
ReturnLayout ==
    /\ settle.pc = "extracting"
    /\ settle' = [settle EXCEPT !.pc = "returned", !.result = SettledLayout]
    /\ SettleUnchanged

NextSettle ==
    \/ AnimationFrame
    \/ FontsReady
    \/ ImageSettles
    \/ Tick
    \/ TimerFires
    \/ ReturnLayout

SpecSettle == InitSettle /\ [][NextSettle]_vars

\* The browser delivers animation frames and timer callbacks, time passes,
\* and extraction runs to its end; fonts and images are not required to
\* ever settle.
LiveSettle ==
    /\ SpecSettle
    /\ WF_vars(AnimationFrame)
    /\ WF_vars(Tick)
    /\ WF_vars(TimerFires)
    /\ WF_vars(ReturnLayout)

----------------------------------------------------------------------------
(* Claims about settleLayout, checked under LiveSettle                     *)

WaitsBounded ==
    /\ settle.pc = "fonts" => settle.elapsed <= FontTimeoutMs
    /\ settle.pc = "images" => settle.elapsed <= ImageTimeoutMs

----------------------------------------------------------------------------
(* services/fontMapper.ts                                                  *)

FONT_MAP ==
    ("Inter" :> "Arial") @@
    ("Roboto" :> "Arial") @@
    ("Open Sans" :> "Arial") @@
    ("Lato" :> "Arial") @@
    ("Montserrat" :> "Arial") @@
    ("Nunito" :> "Arial") @@
    ("Poppins" :> "Arial") @@
    ("Source Sans Pro" :> "Arial") @@
    ("Ubuntu" :> "Arial") @@
    ("Noto Sans" :> "Arial") @@
    ("Raleway" :> "Arial") @@
    ("Work Sans" :> "Arial") @@
    ("Manrope" :> "Arial") @@
    ("DM Sans" :> "Arial") @@
    ("Plus Jakarta Sans" :> "Arial") @@
    ("Outfit" :> "Arial") @@
    ("Figtree" :> "Arial") @@
    ("Geist" :> "Arial") @@
    ("Helvetica Neue" :> "Helvetica") @@
    ("SF Pro" :> "Arial") @@
    ("SF Pro Display" :> "Arial") @@
    ("SF Pro Text" :> "Arial") @@
    ("system-ui" :> "Arial") @@
    ("-apple-system" :> "Arial") @@
    ("BlinkMacSystemFont" :> "Arial") @@
    ("Segoe UI" :> "Arial") @@
    ("Tahoma" :> "Arial") @@
    ("Verdana" :> "Verdana") @@
    ("Trebuchet MS" :> "Trebuchet MS") @@
    ("Georgia" :> "Georgia") @@
    ("Times New Roman" :> "Times New Roman") @@
    ("Times" :> "Times New Roman") @@
    ("Merriweather" :> "Georgia") @@
    ("Playfair Display" :> "Georgia") @@
    ("Lora" :> "Georgia") @@
    ("Libre Baskerville" :> "Georgia") @@
    ("Source Serif Pro" :> "Georgia") @@
    ("Noto Serif" :> "Times New Roman") @@
    ("PT Serif" :> "Times New Roman") @@
    ("Crimson Text" :> "Georgia") @@
    ("EB Garamond" :> "Georgia") @@
    ("Cormorant" :> "Georgia") @@
    ("Fira Code" :> "Courier New") @@
    ("JetBrains Mono" :> "Courier New") @@
    ("Monaco" :> "Courier New") @@
    ("Consolas" :> "Consolas") @@
    ("Source Code Pro" :> "Courier New") @@
    ("IBM Plex Mono" :> "Courier New") @@
    ("Roboto Mono" :> "Courier New") @@
    ("Ubuntu Mono" :> "Courier New") @@
    ("Inconsolata" :> "Courier New") @@
    ("Hack" :> "Courier New") @@
    ("Menlo" :> "Courier New") @@
    ("monospace" :> "Courier New") @@
    ("Bebas Neue" :> "Arial") @@
    ("Oswald" :> "Arial") @@
    ("Anton" :> "Arial") @@
    ("Abril Fatface" :> "Georgia") @@
    ("Lobster" :> "Arial") @@
    ("Pacifico" :> "Arial") @@
    ("Permanent Marker" :> "Arial") @@
    ("Satisfy" :> "Arial") @@
    ("Dancing Script" :> "Arial") @@
    ("Great Vibes" :> "Arial")

STANDARD_FONTS ==
    {"Arial", "Helvetica", "Verdana", "Trebuchet MS", "Georgia",
     "Times New Roman", "Courier New", "Consolas", "serif", "sans-serif"}

\* The properties every object literal inherits from Object.prototype:
\* FONT_MAP[name] is a function or an object for them, not a string.
ObjectPrototypeKeys ==
    {"constructor", "toString", "valueOf", "hasOwnProperty", "isPrototypeOf",
     "propertyIsEnumerable", "toLocaleString", "__proto__"}

\* FONT_MAP[font]: <<>> for undefined.  An inherited function or object is
\* no string; it is written as a name that no font has.
FontMapLookup(font) ==
    IF font \in DOMAIN FONT_MAP THEN <<FONT_MAP[font]>>
    ELSE IF font \in ObjectPrototypeKeys THEN <<"Object.prototype">>
    ELSE <<>>

\* The characters of the font names the calls are made with.
Chars(name) ==
    CASE name = "Arial" -> <<"A", "r", "i", "a", "l">>
      [] name = "Inter" -> <<"I", "n", "t", "e", "r">>
      [] name = "Times" -> <<"T", "i", "m", "e", "s">>
      [] name = "monospace" -> <<"m", "o", "n", "o", "s", "p", "a", "c", "e">>
      [] name = "sans-serif" -> <<"s", "a", "n", "s", "-", "s", "e", "r", "i", "f">>
      [] name = "serif" -> <<"s", "e", "r", "i", "f">>
      [] name = "Foo" -> <<"F", "o", "o">>
      [] name = "Foo Mono" -> <<"F", "o", "o", " ", "M", "o", "n", "o">>
      [] name = "Garamond Pro" -> <<"G", "a", "r", "a", "m", "o", "n", "d", " ", "P", "r", "o">>
      [] name = "constructor" -> <<"c", "o", "n", "s", "t", "r", "u", "c", "t", "o", "r">>
      [] name = "" -> <<>>

\* toLowerCase on the letters of those names.
LowerCase(ch) ==
    LET upper == ("A" :> "a") @@ ("F" :> "f") @@ ("G" :> "g") @@ ("I" :> "i") @@ ("M" :> "m") @@ ("P" :> "p") @@ ("T" :> "t")
    IN  IF ch \in DOMAIN upper THEN upper[ch] ELSE ch

ToLowerCase(chars) == [i \in DOMAIN chars |-> LowerCase(chars[i])]

\* String.prototype.includes
Includes(chars, pattern) ==
    \E i \in 1..(Len(chars) - Len(pattern) + 1) :
        SubSeq(chars, i, i + Len(pattern) - 1) = pattern

serifPatterns ==
    {<<"g", "e", "o", "r", "g", "i", "a">>, <<"t", "i", "m", "e", "s">>, <<"g", "a", "r", "a", "m", "o", "n", "d">>, <<"b", "a", "s", "k", "e", "r", "v", "i", "l", "l", "e">>, <<"p", "a", "l", "a", "t", "i", "n", "o">>, <<"b", "o", "d", "o", "n", "i">>}

detectFontCategory(fontFamily) ==
    LET lower == ToLowerCase(Chars(fontFamily))
    IN  IF \/ Includes(lower, <<"m", "o", "n", "o">>)
           \/ Includes(lower, <<"c", "o", "d", "e">>)
           \/ Includes(lower, <<"c", "o", "n", "s", "o", "l">>)
        THEN "monospace"
        ELSE IF Includes(lower, <<"s", "e", "r", "i", "f">>) /\ ~Includes(lower, <<"s", "a", "n", "s">>)
        THEN "serif"
        ELSE IF \E pattern \in serifPatterns : Includes(lower, pattern)
        THEN "serif"
        ELSE "sans-serif"

CATEGORY_DEFAULTS ==
    ("serif" :> "Georgia") @@ ("sans-serif" :> "Arial") @@ ("monospace" :> "Courier New")

\* fontFamily.split(',').map(f => f.trim().replace(/['"]/g, '')).filter(f =>
\* f.length > 0), on a family given as its comma-separated entries.
ParseFontFamily(fontFamily) ==
    SelectSeq([i \in DOMAIN fontFamily |-> fontFamily[i].name], LAMBDA f : f # "")

\* The loop over fonts: the first font that is standard or mapped decides.
RECURSIVE FirstMatch(_)
FirstMatch(fonts) ==
    IF fonts = <<>> THEN <<>>
    ELSE IF fonts[1] \in STANDARD_FONTS THEN <<fonts[1]>>
    ELSE IF FontMapLookup(fonts[1]) # <<>> THEN FontMapLookup(fonts[1])
    ELSE FirstMatch(Tail(fonts))

mapToStandardFont(fontFamily) ==
    IF fontFamily = <<>> THEN "Arial"
    ELSE LET fonts == ParseFontFamily(fontFamily)
             match == FirstMatch(fonts)
         IN  IF match # <<>> THEN match[1]
             ELSE CATEGORY_DEFAULTS[detectFontCategory(
                      IF fonts # <<>> THEN fonts[1] ELSE "sans-serif")]

getJsPDFFont(fontFamily) ==
    LET standardFont == mapToStandardFont(fontFamily)
    IN  IF standardFont \in {"Helvetica", "Arial", "Verdana", "Trebuchet MS"} THEN "helvetica"
        ELSE IF standardFont \in {"Georgia", "Times New Roman"} THEN "times"
        ELSE IF standardFont \in {"Courier New", "Consolas"} THEN "courier"
        ELSE "helvetica"

getPptxFont(fontFamily) ==
    LET standardFont == mapToStandardFont(fontFamily)
    IN  IF standardFont = "Helvetica" THEN "Arial"
        ELSE IF standardFont \in {"Times New Roman", "Georgia", "Verdana", "Trebuchet MS",
                                  "Courier New", "Consolas", "Arial"}
        THEN standardFont
        ELSE "Arial"

----------------------------------------------------------------------------
(* Calls of the font mapper                                                *)

MaxFonts == 2

\* Standard, mapped and unknown families, the generic keywords, the name of
\* an inherited property, and an empty entry.
FontNames ==
    {"Arial", "Inter", "Times", "monospace", "sans-serif", "serif", "Foo", "Foo Mono", "Garamond Pro", "constructor", ""}

\* An entry of the comma-separated list: the name, bare or quoted.
FontEntries == [name : FontNames, quoted : BOOLEAN]

CallUnchanged == UNCHANGED <<passVars, paintVars, textVars, appVars>>

InitFont ==
    /\ pc = "called"
    /\ \E n \in 0..MaxFonts : arg \in [1..n -> FontEntries]
    /\ ret = <<>>
    /\ PassIdle
    /\ elements = <<>>
    /\ options = <<>>
    /\ pages = <<>>
    /\ PaintIdle
    /\ TextIdle
    /\ AppIdle

\* mapToStandardFont(fontFamily) and the encoders' getJsPDFFont and
\* getPptxFont on the same family.
MapToStandardFont ==
    /\ pc = "called"
    /\ ret' = [standard |-> mapToStandardFont(arg),
               jsPDF    |-> getJsPDFFont(arg),
               pptx     |-> getPptxFont(arg)]
    /\ pc' = "returned"
    /\ UNCHANGED arg
    /\ CallUnchanged

NextFont == MapToStandardFont

SpecFont == InitFont /\ [][NextFont]_vars

----------------------------------------------------------------------------
(* Claims about the font mapper, checked under SpecFont                    *)

PortableFonts ==
    {"Arial", "Helvetica", "Verdana", "Trebuchet MS", "Georgia",
     "Times New Roman", "Courier New", "Consolas"}

\* C16 as stated: for every font-family value mapToStandardFont returns a
\* member of the portable font set.
C16_AlwaysPortableFont ==
    pc = "returned" => ret.standard \in PortableFonts

----------------------------------------------------------------------------
(* Colour utilities (services/fontMapper.ts, rgbToHex)                     *)

\* A colour string is one of
\*   [kind |-> "keyword", word]       null or '' (word = ""), a keyword or a name
\*   [kind |-> "hex", digits]         '#' followed by the characters in digits
\*   [kind |-> "rgb", r, g, b, a]     rgb()/rgba(), a = <<>> without an alpha
\* and the result is <<>> for undefined or <<colour string>>.

HexChars == <<"0", "1", "2", "3", "4", "5", "6", "7", "8", "9", "a", "b", "c", "d", "e", "f">>

\* Number.prototype.toString(16) of an integer, as its sequence of characters.
RECURSIVE ToHexDigits(_)
ToHexDigits(n) ==
    IF n < 0 THEN <<"-">> \o ToHexDigits(-n)
    ELSE IF n < 16 THEN <<HexChars[n + 1]>>
    ELSE ToHexDigits(n \div 16) \o <<HexChars[(n % 16) + 1]>>

\* .padStart(2, '0')
PadStart2(digits) == IF Len(digits) < 2 THEN <<"0">> \o digits ELSE digits

\* rgb.endsWith of the given digits
EndsWith(digits, suffix) ==
    /\ Len(digits) >= Len(suffix)
    /\ SubSeq(digits, Len(digits) - Len(suffix) + 1, Len(digits)) = suffix

rgbToHex(rgb) ==
    IF rgb.kind = "keyword" THEN <<>>
    ELSE IF rgb.kind = "hex"
    THEN \* rgb.length counts the '#'
         IF Len(rgb.digits) + 1 = 9 /\ EndsWith(rgb.digits, <<"0", "0">>) THEN <<>>
         ELSE IF Len(rgb.digits) + 1 = 5 /\ EndsWith(rgb.digits, <<"0">>) THEN <<>>
         ELSE <<rgb>>
    ELSE LET a   == IF rgb.a # <<>> THEN rgb.a[1] ELSE R(1)
             hex == PadStart2(ToHexDigits(rgb.r)) \o PadStart2(ToHexDigits(rgb.g))
                        \o PadStart2(ToHexDigits(rgb.b))
         IN  IF a = R(0) THEN <<>>
             ELSE IF RLt(a, R(1))
             THEN LET alphaHex == PadStart2(ToHexDigits(MathRound(RMul(a, R(255)))))
                  IN  <<[kind |-> "hex", digits |-> hex \o alphaHex]>>
             ELSE <<[kind |-> "hex", digits |-> hex]>>

----------------------------------------------------------------------------
(* Calls of the colour normaliser                                          *)

ColourWords == {"", "transparent", "inherit", "initial", "red"}

\* Lengths of #rgb, #rgba, #rrggbb and #rrggbbaa
HexLengths == {3, 4, 6, 8}

\* The digits the hex inputs are written with.
InputHexDigits == {"0", "f"}

ColourChannels == {0, 128, 255, 300}

ColourAlphas == {<<>>, <<R(0)>>, <<Rat(1, 1000)>>, <<Rat(1, 2)>>, <<R(1)>>, <<R(2)>>}

ColourStrings ==
    [kind : {"keyword"}, word : ColourWords]
        \cup UNION {[kind : {"hex"}, digits : [1..n -> InputHexDigits]] : n \in HexLengths}
        \cup [kind : {"rgb"}, r : ColourChannels, g : ColourChannels, b : ColourChannels,
              a : ColourAlphas]

InitColour ==
    /\ pc = "called"
    /\ arg \in ColourStrings
    /\ ret = <<>>
    /\ PassIdle
    /\ elements = <<>>
    /\ options = <<>>
    /\ pages = <<>>
    /\ PaintIdle
    /\ TextIdle
    /\ AppIdle

RgbToHex ==
    /\ pc = "called"
    /\ ret' = rgbToHex(arg)
    /\ pc' = "returned"
    /\ UNCHANGED arg
    /\ CallUnchanged

\* The returned hex is normalised again (standardizeColor and the encoders
\* call rgbToHex on colours that are hex already).
NormaliseAgain ==
    /\ pc = "returned"
    /\ ret # <<>>
    /\ ret[1] # arg
    /\ arg' = ret[1]
    /\ ret' = <<>>
    /\ pc' = "called"
    /\ CallUnchanged

NextColour == RgbToHex \/ NormaliseAgain

SpecColour == InitColour /\ [][NextColour]_vars

----------------------------------------------------------------------------
(* Claims about the colour normaliser, checked under SpecColour            *)

IsCanonicalHex(colour) ==
    /\ colour.kind = "hex"
    /\ Len(colour.digits) \in {6, 8}
    /\ \A i \in DOMAIN colour.digits : colour.digits[i] \in Range(HexChars)

\* C17 as stated: rgbToHex returns every canonical hex string (#rrggbb or
\* #rrggbbaa, those it returned itself included) unchanged.
C17_CanonicalHexUnchanged ==
    (pc = "returned" /\ IsCanonicalHex(arg)) => ret = <<arg>>

----------------------------------------------------------------------------
(* services/gradientHandler.ts                                             *)

\* A gradient string is [direction, stops]: 'linear-gradient(', an optional
\* direction ('to right') and the colour stops, each a colour string with an
\* optional position in percent.  The colours are names and rgb() values;
\* hsl() is not among them.

namedColors ==
    ("white" :> <<"f", "f", "f", "f", "f", "f">>) @@
    ("black" :> <<"0", "0", "0", "0", "0", "0">>) @@
    ("red" :> <<"f", "f", "0", "0", "0", "0">>) @@
    ("green" :> <<"0", "0", "f", "f", "0", "0">>) @@
    ("blue" :> <<"0", "0", "0", "0", "f", "f">>) @@
    ("yellow" :> <<"f", "f", "f", "f", "0", "0">>) @@
    ("orange" :> <<"f", "f", "a", "5", "0", "0">>) @@
    ("purple" :> <<"8", "0", "0", "0", "8", "0">>) @@
    ("pink" :> <<"f", "f", "c", "0", "c", "b">>) @@
    ("gray" :> <<"8", "0", "8", "0", "8", "0">>) @@
    ("grey" :> <<"8", "0", "8", "0", "8", "0">>) @@
    ("transparent" :> <<"0", "0", "0", "0", "0", "0", "0", "0">>)

\* The hex string a colour is normalised to, as the characters after '#'.
normalizeColor(color) ==
    IF color.kind = "keyword"
    THEN IF color.word \in DOMAIN namedColors THEN namedColors[color.word]
         ELSE <<"0", "0", "0", "0", "0", "0">>
    ELSE IF color.kind = "hex" THEN color.digits
    ELSE PadStart2(ToHexDigits(color.r)) \o PadStart2(ToHexDigits(color.g))
             \o PadStart2(ToHexDigits(color.b))

\* The words of the gradient string that colorPattern's \b[a-z]+\b matches
\* before it comes to the stops: the two words of the function name and the
\* words of the direction.
LeadingWords(gradient) ==
    <<"linear", "gradient">> \o gradient.direction

\* The matches of colorPattern in the order of the string.
ColorMatches(gradient) ==
    [i \in 1..Len(LeadingWords(gradient)) |->
        [color |-> [kind |-> "keyword", word |-> LeadingWords(gradient)[i]], position |-> <<>>]]
    \o [i \in 1..Len(gradient.stops) |->
        [color    |-> gradient.stops[i].color,
         position |-> IF gradient.stops[i].percent = <<>> THEN <<>>
                      ELSE <<RDiv(gradient.stops[i].percent[1], R(100))>>]]

parseGradientStops(gradient) ==
    LET matches == ColorMatches(gradient)
    IN  [i \in 1..Len(matches) |->
            [color    |-> normalizeColor(matches[i].color),
             position |-> IF matches[i].position # <<>> THEN matches[i].position[1]
                          ELSE IF i = 1 THEN R(0)
                          ELSE IF i = Len(matches) THEN R(1)
                          ELSE Rat(i - 1, Len(matches) - 1)]]

\* parseInt of a hex digit
HexValue(c) == CHOOSE v \in 0..15 : HexChars[v + 1] = c

\* parseInt(pair, 16)
ParseHexPair(digits, i) == 16 * HexValue(digits[i]) + HexValue(digits[i + 1])

\* hexToRgb: six hex digits, or black
hexToRgb(hex) ==
    IF Len(hex) = 6 /\ \A i \in 1..6 : hex[i] \in Range(HexChars)
    THEN [r |-> ParseHexPair(hex, 1), g |-> ParseHexPair(hex, 3), b |-> ParseHexPair(hex, 5)]
    ELSE [r |-> 0, g |-> 0, b |-> 0]

\* The sums of the loop over the consecutive pairs from pair i on.
RECURSIVE DominantTotals(_, _)
DominantTotals(stops, i) ==
    IF i > Len(stops) - 1 THEN [r |-> R(0), g |-> R(0), b |-> R(0), weight |-> R(0)]
    ELSE LET weight == RSub(stops[i + 1].position, stops[i].position)
             rgb1   == hexToRgb(stops[i].color)
             rgb2   == hexToRgb(stops[i + 1].color)
             rest   == DominantTotals(stops, i + 1)
             Segment(c1, c2) == RMul(RDiv(R(c1 + c2), R(2)), weight)
         IN  [r      |-> RAdd(Segment(rgb1.r, rgb2.r), rest.r),
              g      |-> RAdd(Segment(rgb1.g, rgb2.g), rest.g),
              b      |-> RAdd(Segment(rgb1.b, rgb2.b), rest.b),
              weight |-> RAdd(weight, rest.weight)]

calculateDominantColor(stops) ==
    IF Len(stops) = 0 THEN <<"0", "0", "0", "0", "0", "0">>
    ELSE IF Len(stops) = 1 THEN stops[1].color
    ELSE LET total == DominantTotals(stops, 1)
             Channel(sum) == PadStart2(ToHexDigits(MathRound(RDiv(sum, total.weight))))
         IN  IF total.weight = R(0) THEN stops[1].color
             ELSE Channel(total.r) \o Channel(total.g) \o Channel(total.b)

----------------------------------------------------------------------------
(* Calls of the gradient handler                                           *)

MaxStops == 3

GradientDirections == {<<>>, <<"to", "right">>}

Red == [kind |-> "rgb", r |-> 255, g |-> 0, b |-> 0, a |-> <<>>]
Blue == [kind |-> "rgb", r |-> 0, g |-> 0, b |-> 255, a |-> <<>>]

GradientColours == {Red, Blue, [kind |-> "keyword", word |-> "white"]}

StopPercents == {<<>>, <<R(0)>>, <<R(10)>>, <<R(100)>>}

GradientStops == [color : GradientColours, percent : StopPercents]

Gradients ==
    [direction : GradientDirections,
     stops : UNION {[1..n -> GradientStops] : n \in 2..MaxStops}]

InitGradient ==
    /\ pc = "called"
    /\ arg \in Gradients
    /\ ret = <<>>
    /\ PassIdle
    /\ elements = <<>>
    /\ options = <<>>
    /\ pages = <<>>
    /\ PaintIdle
    /\ TextIdle
    /\ AppIdle

\* handleGradient on an element whose background image is the gradient.
HandleGradient ==
    /\ pc = "called"
    /\ LET stops == parseGradientStops(arg)
       IN  ret' = [stops |-> stops, dominantColor |-> calculateDominantColor(stops)]
    /\ pc' = "returned"
    /\ UNCHANGED arg
    /\ CallUnchanged

NextGradient == HandleGradient

SpecGradient == InitGradient /\ [][NextGradient]_vars

----------------------------------------------------------------------------
(* Claims about the gradient handler, checked under SpecGradient           *)

IsRrggbb(hex) == Len(hex) = 6 /\ \A i \in 1..6 : hex[i] \in Range(HexChars)

\* Scenario D: the stops red at 0% and blue at 100%
ScenarioD ==
    arg.stops = <<[color |-> Red, percent |-> <<R(0)>>], [color |-> Blue, percent |-> <<R(100)>>]>>

\* C18 as stated: the dominant colour of every parsed stop list is a
\* well-formed #rrggbb hex, each channel within 0..255, and for red at 0% and
\* blue at 100% it is the purple midpoint #800080.
C18_DominantColourWellFormed ==
    pc = "returned" =>
        /\ IsRrggbb(ret.dominantColor)
        /\ ScenarioD => ret.dominantColor = <<"8", "0", "0", "0", "8", "0">>

----------------------------------------------------------------------------
(* Two runs on one rendered tree: walkDom lines 116-117, once per pass     *)

\* The next pass over the same tree with the same styles: the order of the
\* first run is kept in ret for the comparison, the StackingContext objects
\* of the first run stay where they are until the second run replaces them.
PaintAgain ==
    /\ pc = "painted"
    /\ ret = <<>>
    /\ ret' = <<paintOrder>>
    /\ pc' = "rendered"
    /\ UNCHANGED <<arg, dom, stacking, paintOrder, passVars, textVars, appVars>>

NextRepaint == BuildStackingContextTree \/ GetPaintOrder \/ PaintAgain

SpecRepaint == InitPaint /\ [][NextRepaint]_vars

----------------------------------------------------------------------------
(* The multi-page algorithm as specified, for comparison under SpecPaginate *)

\* The items in ascending order of their top, ties in input order.
InTopOrder(items) ==
    LET n == Len(items)
        Before(i, j) == \/ RLt(items[i].position.y, items[j].position.y)
                        \/ items[i].position.y = items[j].position.y /\ i < j
        order == CHOOSE f \in [1..n -> 1..n] :
                    /\ \A i, j \in 1..n : i # j => f[i] # f[j]
                    /\ \A i \in 1..n - 1 : Before(f[i], f[i + 1])
    IN  [i \in 1..n |-> items[order[i]]]

\* The pages already closed (done), the page being filled (current, starting
\* at pageTop) and the items still to be placed.
RECURSIVE SpecifiedPages(_, _, _, _, _, _)
SpecifiedPages(items, done, pageTop, current, pageHeight, margin) ==
    IF items = <<>>
    THEN IF current = <<>> THEN done
         ELSE Append(done, [yPosition |-> pageTop, elements |-> current])
    ELSE LET item     == Head(items)
             bottom   == RAdd(item.position.y, item.position.height)
             closes   == /\ RLt(RSub(RAdd(pageTop, pageHeight), margin), bottom)
                         /\ current # <<>>
             top      == IF closes THEN RAdd(pageTop, pageHeight) ELSE pageTop
             y        == RSub(item.position.y, top)
             placed   == [item EXCEPT !.position.y = y,
                                      !.position.yPercent = RMul(RDiv(y, pageHeight), R(100))]
         IN  IF closes
             THEN SpecifiedPages(Tail(items),
                                 Append(done, [yPosition |-> pageTop, elements |-> current]),
                                 top, <<placed>>, pageHeight, margin)
             ELSE SpecifiedPages(Tail(items), done, top, Append(current, placed),
                                 pageHeight, margin)

Uncapped == MultiPageDone /\ options.maxPages = <<>>

\* C20: without a page cap, multi-page paginateLayoutItems returns exactly
\* the pages of the specified algorithm: items in ascending top order with
\* ties in input order, a page closed before an item if and only if the
\* item's bottom exceeds pageTop + pageHeight - marginPx and the page is not
\* empty, pageTop advanced by pageHeight, the item appended with its y and
\* yPercent relative to pageTop.
C20_PagesAsSpecified ==
    Uncapped =>
        pages = SpecifiedPages(InTopOrder(elements), <<>>, R(0), <<>>,
                               options.pageHeight, MarginOf(options))

\* Three pages were returned without a cap, from items that were not given
\* in top order.
C20_Witness ==
    /\ Uncapped
    /\ Len(pages) = 3
    /\ \E i \in 1..Len(elements) - 1 :
          RLt(elements[i + 1].position.y, elements[i].position.y)

----------------------------------------------------------------------------
(* The page cap, checked under SpecPaginate                                *)

Capped == MultiPageDone /\ options.maxPages # <<>> /\ options.maxPages[1] >= 1

\* C21: with maxPages >= 1, multi-page paginateLayoutItems returns at most
\* maxPages pages, and every page it returns holds at least one item.
C21_AtMostMaxPagesNoneEmpty ==
    Capped =>
        /\ Len(pages) <= options.maxPages[1]
        /\ \A p \in 1..Len(pages) : Len(pages[p].elements) >= 1

\* The cap was reached and held back a page: the last of the maxPages pages
\* holds an item that crosses its boundary behind another item.
C21_Witness ==
    /\ Capped
    /\ Len(pages) = options.maxPages[1]
    /\ LET last == pages[Len(pages)]
       IN  \E i \in 2..Len(last.elements) :
              RLt(RSub(options.pageHeight, MarginOf(options)),
                  RAdd(last.elements[i].position.y, last.elements[i].position.height))

----------------------------------------------------------------------------
(* Hidden text, checked under SpecText                                     *)

\* The styles of the model are computed styles.  visibility is inherited,
\* so a text node is hidden when its parent element computes to hidden;
\* opacity and display are not inherited, so a text node is invisible when
\* any element above it has opacity 0 or display none.
LiesUnderHidden(t) ==
    \/ dom[texts[t].parent].style.visibility = "hidden"
    \/ \E a \in DOMAIN dom :
          /\ Contains(dom, a, texts[t].parent)
          /\ \/ dom[a].style.opacity = R(0)
             \/ dom[a].style.display = "none"

\* The TextElement has the text and the position key of text node t.
EmittedFor(el, t) ==
    /\ el.text = Trim(CollapseWhitespace(texts[t].text))
    /\ getPositionKey(el.position) = KeyOfNode(t)

\* C22 as stated: at no point of the walk has a TextElement been emitted
\* for text under an ancestor with zero opacity or under a hidden ancestor:
\* every TextElement emitted so far is that of a text node that does not lie
\* under one.
C22_HiddenTextNeverEmitted ==
    pc = "walking" =>
        \A i \in DOMAIN extracted :
            \E t \in DOMAIN texts : EmittedFor(extracted[i], t) /\ ~LiesUnderHidden(t)

----------------------------------------------------------------------------
(* Text wrapper (src/unnamed/part_005): findLineEndOffset                  *)

\* A call is [startOffset, textLength, rectCount], where rectCount[e] is
\* getRangeRectsCount(textNode, startOffset, e) for the end offsets e of
\* startOffset + 1 .. textLength.

\* Mutant of FitsOneBox: only a range without any box fits.
FitsNoBox(rectCount) == rectCount < 1

\* rectCount <= 1
FitsOneBox(rectCount) == rectCount <= 1

\* (low + high) >> 1
Midpoint(low, high) == (low + high) \div 2

\* let low = startOffset + 1; let high = textLength; let best = low
SearchStart(call) ==
    [low |-> call.startOffset + 1, high |-> call.textLength, best |-> call.startOffset + 1]

\* One iteration of  while (low <= high) { ... }
SearchStep(call, st) ==
    LET mid == Midpoint(st.low, st.high)
    IN  IF FitsOneBox(call.rectCount[mid])
        THEN [low |-> mid + 1, high |-> st.high, best |-> mid]
        ELSE [low |-> st.low, high |-> mid - 1, best |-> st.best]

----------------------------------------------------------------------------
(* Calls of findLineEndOffset                                              *)

MaxTextLength == 5

\* The number of boxes a range can occupy: none (collapsed white space),
\* one line, or more.
RectCounts == 0..2

LineEndCalls ==
    UNION {[startOffset : {so}, textLength : {n}, rectCount : [(so + 1)..n -> RectCounts]] :
              <<so, n>> \in {c \in (0..MaxTextLength) \X (1..MaxTextLength) : c[1] < c[2]}}

InitLineEnd ==
    /\ pc = "called"
    /\ arg \in LineEndCalls
    /\ ret = <<>>
    /\ PassIdle
    /\ elements = <<>>
    /\ options = <<>>
    /\ pages = <<>>
    /\ PaintIdle
    /\ TextIdle
    /\ AppIdle

\* findLineEndOffset(textNode, startOffset, textLength) up to its loop
FindLineEndOffset ==
    /\ pc = "called"
    /\ ret' = SearchStart(arg)
    /\ pc' = "searching"
    /\ UNCHANGED arg
    /\ CallUnchanged

BinarySearchStep ==
    /\ pc = "searching"
    /\ ret.low <= ret.high
    /\ ret' = SearchStep(arg, ret)
    /\ UNCHANGED <<pc, arg>>
    /\ CallUnchanged

\* return best
ReturnBest ==
    /\ pc = "searching"
    /\ ~(ret.low <= ret.high)
    /\ pc' = "returned"
    /\ UNCHANGED <<arg, ret>>
    /\ CallUnchanged

NextLineEnd == FindLineEndOffset \/ BinarySearchStep \/ ReturnBest

SpecLineEnd == InitLineEnd /\ [][NextLineEnd]_vars

\* The function runs to its end once called.
LiveLineEnd == SpecLineEnd /\ WF_vars(NextLineEnd)

----------------------------------------------------------------------------
(* Claims about findLineEndOffset, checked under LiveLineEnd               *)

EndOffsets == (arg.startOffset + 1)..arg.textLength

\* The number of boxes of [startOffset, e) does not decrease with e.
BoxesNonDecreasing ==
    \A e1, e2 \in EndOffsets : e1 <= e2 => arg.rectCount[e1] <= arg.rectCount[e2]

\* The end offsets whose range occupies at most one box.
NotWrapping == {e \in EndOffsets : arg.rectCount[e] <= 1}

LongestRunReturned ==
    (pc = "returned" /\ BoxesNonDecreasing /\ NotWrapping # {}) =>
        /\ ret.best \in NotWrapping
        /\ \A e \in NotWrapping : e <= ret.best

\* C23: when the number of boxes of [s, e) is non-decreasing in e,
\* findLineEndOffset terminates and returns the largest e of (s, n] whose
\* range [s, e) occupies at most one box.
C23_TerminatesWithLongestRun ==
    /\ <>(pc = "returned")
    /\ [](LongestRunReturned)

\* The search returned an end offset in the middle of the text, after which
\* the text wraps.
C23_Witness ==
    /\ pc = "returned"
    /\ BoxesNonDecreasing
    /\ arg.textLength - arg.startOffset >= 4
    /\ arg.startOffset + 1 < ret.best
    /\ ret.best < arg.textLength
    /\ arg.rectCount[ret.best] = 1
    /\ arg.rectCount[ret.best + 1] = 2

----------------------------------------------------------------------------
(* Passes that were given up, checked under SpecApp                        *)

\* processFile sets status to 'analyzing' when it starts a pass, and only
\* reset and reader.onload set it to 'idle': a pass that is in flight while
\* status is 'idle' was started before the caller reset or loaded a file.
GivenUp(p) == InFlight(p) /\ app.status = "idle"

\* C24 as stated: when a pass that was in flight at a reset or at the load
\* of a new file completes, neither layout nor status changes.
C24_GivenUpPassChangesNothing ==
    [][\A p \in DOMAIN passes :
          (GivenUp(p) /\ passes'[p].pc = "returned")
              => (app'.layout = app.layout /\ app'.status = app.status)]_vars

----------------------------------------------------------------------------
(* A pass in a page that is given no animation frames                      *)

\* As LiveSettle, except that the browser need not deliver an animation
\* frame: requestAnimationFrame callbacks are not run while the document is
\* hidden.  Timers still fire and time still passes.
LiveSettleWithoutFrames ==
    /\ SpecSettle
    /\ WF_vars(Tick)
    /\ WF_vars(TimerFires)
    /\ WF_vars(ReturnLayout)

\* C25 as stated: every await of settleLayout is raced against a deadline,
\* so the pass comes to its end even if a requestAnimationFrame callback
\* never fires.
C25_PassEndsWithoutFrames ==
    <>(settle.pc \notin {"frame1", "fonts", "images", "frame2", "extracting"})

----------------------------------------------------------------------------
(* Percentages of the returned items, checked under SpecPass               *)

\* The percentage fields of pos are its absolute fields over the page
\* dimension times 100, rounded to 3 decimals.
PercentagesRounded(pos, pageWidth, pageHeight) ==
    /\ pos.xPercent = Round3(RMul(RDiv(pos.x, pageWidth), R(100)))
    /\ pos.yPercent = Round3(RMul(RDiv(pos.y, pageHeight), R(100)))
    /\ pos.wPercent = Round3(RMul(RDiv(pos.width, pageWidth), R(100)))
    /\ pos.hPercent = Round3(RMul(RDiv(pos.height, pageHeight), R(100)))

\* C26 as stated: the PreciseRect of every item on a returned page has
\* percentage fields equal to absolute / pageDimension * 100 rounded to 3
\* decimals, as extracted, after the multi-page rewrite of y and after
\* single-page scaling.
C26_PercentagesRounded ==
    pc \in {"paginated", "extracted"} =>
        \A p \in 1..Len(pages) :
            \A i \in 1..Len(pages[p].elements) :
                PercentagesRounded(pages[p].elements[i].position,
                                   R(CONTAINER_WIDTH), options.pageHeight)

----------------------------------------------------------------------------
(* Conservation of items, checked under SpecPaginate                       *)

\* The places <<page, index>> at which the returned pages hold item id.
PlacesOf(id) ==
    {pl \in (1..Len(pages)) \X (1..Len(elements)) :
        /\ pl[2] <= Len(pages[pl[1]].elements)
        /\ pages[pl[1]].elements[pl[2]].id = id}

\* C27: paginateLayoutItems neither loses nor duplicates items: single-page
\* mode returns exactly one page, and in single-page mode and in multi-page
\* mode with maxPages absent or >= 1 every input item is at exactly one
\* place of the returned pages and no page holds anything else.
C27_ItemsConserved ==
    (pc = "paginated" /\ (options.maxPages = <<>> \/ options.maxPages[1] >= 1)) =>
        /\ options.forceSinglePage => Len(pages) = 1
        /\ \A i \in 1..Len(elements) : Cardinality(PlacesOf(elements[i].id)) = 1
        /\ \A p \in 1..Len(pages) :
              /\ Len(pages[p].elements) <= Len(elements)
              /\ \A j \in 1..Len(pages[p].elements) :
                    \E i \in 1..Len(elements) : elements[i].id = pages[p].elements[j].id

\* Three items were spread over two pages under a cap of two pages.
C27_Witness ==
    /\ Capped
    /\ Len(elements) = 3
    /\ Len(pages) = 2
    /\ Len(pages[2].elements) >= 1

----------------------------------------------------------------------------
(* Styles of the emitted text, checked under SpecText                      *)

\* The index of element e in the paint order, counted from 0 as walkDom
\* counts it; -1 for an element that is not in it.
PaintIndex(e) ==
    IF \E i \in DOMAIN paintOrder : paintOrder[i] = e
    THEN (CHOOSE i \in DOMAIN paintOrder : paintOrder[i] = e) - 1
    ELSE -1

\* C28 as stated: every TextElement emitted by the walk carries the styles
\* and the paint index of the element that is the direct parent of its text
\* node.
C28_StyledByDirectParent ==
    pc = "walking" =>
        \A i \in DOMAIN extracted :
            \E t \in DOMAIN texts :
                /\ EmittedFor(extracted[i], t)
                /\ extracted[i].styledBy = texts[t].parent
                /\ extracted[i].zIndex = PaintIndex(texts[t].parent)

----------------------------------------------------------------------------
(* Atomic stacking contexts, checked under SpecPaint                       *)

\* The indexes of the paint order at which the element e and its rendered
\* descendants are.
Block(e) == UNION {Indexes(x) : x \in Subtree(e)}

StartsContext(e) == createsStackingContext(e, dom[e].style) /\ Indexes(e) # {}

\* C29: for every element of the paint order that starts a stacking
\* context, the element and the nodes attached to its context or to a
\* context below it (its rendered descendants) are all in the paint order
\* and fill one interval of it that begins with the element: no node from
\* outside is painted between two of them.
C29_ContextsAtomic ==
    pc = "painted" =>
        \A e \in DOMAIN dom :
            StartsContext(e) =>
                /\ \A x \in Subtree(e) : Indexes(x) # {}
                /\ \A i, j \in Block(e) : \A k \in i..j : k \in Block(e)
                /\ \A i \in Block(e), j \in Indexes(e) : j <= i

\* A context with a descendant that is itself a context with a negative
\* z-index, painted after a later sibling: the order is not document order,
\* and the block of the context is still whole.
C29_Witness ==
    /\ pc = "painted"
    /\ \E e, x, f \in DOMAIN dom :
          /\ e # 1 /\ x # e /\ f > x
          /\ StartsContext(e)
          /\ x \in Subtree(e)
          /\ StartsContext(x)
          /\ getZIndex(dom[x].style) < 0
          /\ f \notin Subtree(e)
          /\ VisitedBefore(f, e)

----------------------------------------------------------------------------
(* Text wrapper (src/unnamed/part_005): the line scan of extractTextLines  *)

\* A text node is [text, breaks, thinLines]: its characters, the offsets at
\* which the layout begins a new line, and the lines (counted from 0) whose
\* box is less than a pixel wide or high.

\* getRangeRectsCount(textNode, start, end): one box for every line the
\* range touches.
getRangeRectsCount(node, start, end) ==
    1 + Cardinality({b \in node.breaks : start < b /\ b < end})

RECURSIVE Search(_, _)
Search(call, st) ==
    IF st.low <= st.high THEN Search(call, SearchStep(call, st)) ELSE st.best

findLineEndOffset(node, startOffset, textLength) ==
    LET call == [startOffset |-> startOffset,
                 textLength  |-> textLength,
                 rectCount   |-> [e \in (startOffset + 1)..textLength |->
                                    getRangeRectsCount(node, startOffset, e)]]
    IN  Search(call, SearchStart(call))

\* while (offset < textLength && isWhitespace(fullText[offset])) offset += 1
RECURSIVE SkipWhitespace(_, _)
SkipWhitespace(text, offset) ==
    IF offset < Len(text) /\ IsWhitespace(text[offset + 1])
    THEN SkipWhitespace(text, offset + 1)
    ELSE offset

\* Mutant of NextOffset: the scan goes on one character too far.
NextOffsetBeyond(lineEnd) == lineEnd + 1

\* offset = lineEnd
NextOffset(lineEnd) == lineEnd

\* The line on which the character at offset lies.
LineOf(node, offset) == Cardinality({b \in node.breaks : b <= offset})

\* One iteration of  while (offset < textLength) { ... }  on the state of
\* the scan; done is set by the two break statements.  The position key of
\* a run is not modelled: the runs of one node lie on different lines.
ScanStep(node, st) ==
    LET textLength == Len(node.text)
        guard      == st.guard + 1
        offset     == SkipWhitespace(node.text, st.offset)
        lineEnd    == findLineEndOffset(node, offset, textLength)
        counted    == [st EXCEPT !.guard = guard]
    IN  IF guard > textLength + 16 THEN [counted EXCEPT !.done = TRUE]
        ELSE IF offset >= textLength THEN [counted EXCEPT !.offset = offset, !.done = TRUE]
        ELSE IF lineEnd <= offset THEN [counted EXCEPT !.offset = offset + 1]
        ELSE IF LineOf(node, offset) \in node.thinLines
        THEN [counted EXCEPT !.offset = NextOffset(lineEnd),
                             !.runs = Append(@, <<offset, lineEnd>>)]
        ELSE [counted EXCEPT !.offset = NextOffset(lineEnd),
                             !.runs = Append(@, <<offset, lineEnd>>),
                             !.lines = Append(@, Trim(SubSeq(node.text, offset + 1, lineEnd)))]

----------------------------------------------------------------------------
(* Scans of one text node                                                  *)

MaxScanLength == 3

ScannedNodes ==
    UNION {[text      : [1..n -> {"a", " "}],
            breaks    : SUBSET (1..(n - 1)),
            thinLines : SUBSET {0, 1}] : n \in 1..MaxScanLength}

InitLineScan ==
    /\ pc = "called"
    /\ arg \in {node \in ScannedNodes : Trim(node.text) # <<>>}
    /\ ret = <<>>
    /\ PassIdle
    /\ elements = <<>>
    /\ options = <<>>
    /\ pages = <<>>
    /\ PaintIdle
    /\ TextIdle
    /\ AppIdle

\* let offset = 0; let guard = 0
StartLineScan ==
    /\ pc = "called"
    /\ ret' = [offset |-> 0, guard |-> 0, done |-> FALSE, runs |-> <<>>, lines |-> <<>>]
    /\ pc' = "scanning"
    /\ UNCHANGED arg
    /\ CallUnchanged

LineScanStep ==
    /\ pc = "scanning"
    /\ ~ret.done
    /\ ret.offset < Len(arg.text)
    /\ ret' = ScanStep(arg, ret)
    /\ UNCHANGED <<pc, arg>>
    /\ CallUnchanged

\* The while loop is left.
EndLineScan ==
    /\ pc = "scanning"
    /\ ret.done \/ ~(ret.offset < Len(arg.text))
    /\ pc' = "returned"
    /\ UNCHANGED <<arg, ret>>
    /\ CallUnchanged

NextLineScan == StartLineScan \/ LineScanStep \/ EndLineScan

SpecLineScan == InitLineScan /\ [][NextLineScan]_vars

\* The scan runs to its end once started.
LiveLineScan == SpecLineScan /\ WF_vars(NextLineScan)

----------------------------------------------------------------------------
(* Claims about the line scan, checked under LiveLineScan                  *)

\* The offsets of the characters of a run.
RunOffsets(run) == run[1]..(run[2] - 1)

ScanBounded ==
    pc \in {"scanning", "returned"} =>
        /\ ret.guard <= Len(arg.text)
        /\ \A i, j \in DOMAIN ret.runs :
              i # j => RunOffsets(ret.runs[i]) \cap RunOffsets(ret.runs[j]) = {}

ScanCovers ==
    pc = "returned" =>
        \A o \in 0..(Len(arg.text) - 1) :
            ~IsWhitespace(arg.text[o + 1])
                => \E i \in DOMAIN ret.runs : o \in RunOffsets(ret.runs[i])

OffsetIncreases ==
    (pc = "scanning" /\ pc' = "scanning") => ret'.offset > ret.offset

\* C30: the line scan of a text node ends after at most textLength
\* iterations, its offset strictly increasing, and the candidate runs
\* [offset, lineEnd) it forms are pairwise disjoint and together hold every
\* character of the node that is not white space.
C30_ScanEndsAndCovers ==
    /\ <>(pc = "returned")
    /\ [](ScanBounded /\ ScanCovers)
    /\ [][OffsetIncreases]_vars

\* A scan over a text of two words on two lines has ended with two runs.
C30_Witness ==
    /\ pc = "returned"
    /\ Len(arg.text) = 3
    /\ arg.breaks = {2}
    /\ Len(ret.runs) = 2
    /\ IsWhitespace(arg.text[2])

====
